---------------------------- MODULE Spec2Model ----------------------------
(***************************************************************************)
(* A model of the callout runtime of service-extensions (Python):          *)
(*   - the ext-proc and L4 streaming dispatchers                           *)
(*     (extproc/service/callout_server.py, network_callout_server.py),     *)
(*   - the server lifecycle of CalloutServer (run / shutdown / workers),   *)
(*   - the lifecycle of CalloutServerAuth and NetworkCalloutServer.        *)
(***************************************************************************)
EXTENDS Integers, Sequences, FiniteSets, TLC

(***************************************************************************)
(* Bounds of the model.                                                    *)
(***************************************************************************)
\* Longest inbound ext-proc stream a client sends.
MaxStream == 3
\* Longest inbound L4 stream (frames) a client sends.
MaxFrames == 2
\* num_processes: the gRPC worker processes run() spawns.
NumProcesses == 2
\* shutdown() calls the other threads make in all.
MaxShutdownCalls == 2
\* run() calls made on the instance.
MaxRunCalls == 2
MaxConcurrent == 2
MaxHeaders == 2
MaxStrLen == 1
MaxAddrLen == 4
MaxCallouts == 4

(***************************************************************************)
(* Part 1.  The streaming dispatchers.                                     *)
(***************************************************************************)
VARIABLES
  svc,        \* which servicer serves the RPC: "extproc", "l4" or "authz" (unary Check)
  received,   \* the inbound messages of the stream, in arrival order
  handled,    \* one record per hook invocation: the message and what the hook did
  outbound,   \* the responses yielded on the stream, in emission order
  rpcStatus,  \* "OPEN" while the RPC runs, then its final gRPC status code
  rpcDetails  \* the details string of the final status

\* Two streams served at the same time, by the same worker process or by two.
VARIABLE conc

streamVars == <<svc, received, handled, outbound, rpcStatus, rpcDetails, conc>>

\* The state of one server instance and of the threads that call it (Parts 2, 3).
VARIABLES
  kind,               \* the server class: "extproc" (CalloutServer), "auth", "network"
  healthCheck,        \* health_check_address is set (combined_health_check is False)
  setup,              \* self._setup
  shutdownInitiated,  \* self._shutdown_initiated
  closed,             \* self._closed
  hcServer,           \* self._health_check_server: None or "server"
  hc,                 \* the HTTPServer object: serving, shutdown request, is-shut-down event, socket
  event,              \* self._grpc_shutdown_event is set
  grpc,               \* the stage of the in-process gRPC server of "auth" / "network"
  lists,              \* the list objects that were bound to self._grpc_worker_processes
  workerList,         \* the list object self._grpc_worker_processes is bound to now
  proc,               \* each worker process: "unborn", "created", "alive", "exited", "terminated"
  pc,                 \* where each thread is
  runI,               \* run()'s loop variable i in _start_servers
  iter,               \* each thread's iterator over the worker list in shutdown()
  runCalls,           \* run() calls made so far
  shutdownCalls,      \* shutdown() calls made so far by the other threads
  late,               \* the threads whose current shutdown() call began after another had ended
  stray,              \* some shutdown() call began while run() was not in its serve loop
  raised,             \* the threads whose run() or shutdown() call raised
  steps               \* how often each shutdown step was performed

\* The constructor arguments of the instance, what __init__ made of them, and
\* how far startup got (Part 4).
VARIABLES
  cfg,     \* the constructor arguments and the environment they meet
  inst,    \* the instance __init__ left behind, or that it raised
  start,   \* startup: "idle", "serving" (run() reached its serve loop) or "raised"
  workers  \* the processor instance and gRPC server of each worker process

cfgVars == <<cfg, inst, start, workers>>

\* A call of one of the callout_tools helpers: its name, arguments and result
\* (Part 5).
VARIABLE tool

\* An observability example server: its module-level counters and the callouts
\* its hooks have handled on each stream (Part 6).
VARIABLE obs

toolVars == <<tool, obs>>

lifeVars ==
  <<kind, healthCheck, setup, shutdownInitiated, closed, hcServer, hc, event, grpc,
    lists, workerList, proc, pc, runI, iter, runCalls, shutdownCalls, late, stray,
    raised, steps>>

\* Python's None, and the absent details of a status.
None == "None"

\* ProcessingRequest.request oneof of ext-proc; "none" is a message with no field set.
ExtProcVariants ==
  {"request_headers", "response_headers", "request_body", "response_body",
   "request_trailers", "response_trailers", "none"}

\* The four variants CalloutServer.process routes to a hook.
HookVariants ==
  {"request_headers", "response_headers", "request_body", "response_body"}

\* The oneof of the L4 ProcessingRequest; "none" is a frame with no data field set.
L4Variants == {"read_data", "write_data", "none"}

\* Byte strings a hook can answer with, and those the inbound L4 frames carry.
Data == {"x", "y"}
InboundData == {"x"}

\* An inbound message: the set field and, for an L4 frame, its bytes and flag.
Message(variant, data, eos) ==
  [variant |-> variant, data |-> data, end_of_stream |-> eos]

ExtProcMessages == {Message(v, None, FALSE) : v \in ExtProcVariants}

L4Messages ==
  {Message(v, d, e) : v \in {"read_data", "write_data"}, d \in InboundData, e \in BOOLEAN}
    \cup {Message("none", None, FALSE)}

\* The CheckRequest of an ext-authz Check RPC.
CheckRequests == {Message("check", None, FALSE)}

Messages(s) ==
  IF s = "extproc" THEN ExtProcMessages
  ELSE IF s = "l4" THEN L4Messages
  ELSE CheckRequests

\* Payloads of the typed results (an empty message, or one carrying a mutation).
Tags == {"empty", "mut"}

\* A ProcessingResponse on the wire: which field of the response oneof is set,
\* its payload, and the dynamic_metadata struct.
Response(variant, value, md) ==
  [variant |-> variant, value |-> value, dynamic_metadata |-> md]

\* ProcessingResponse(): no field set.
EmptyResponse == Response("none", None, None)

\* A full ProcessingResponse a hook may build itself (dynamic forwarding example),
\* among them one that carries an immediate_response.
FullResponses ==
  {Response("request_headers", "mut", "dynamic_forwarding"),
   Response("immediate_response", "mut", None)}

\* What a hook invocation can do: return a value of some Python type, raise an
\* exception, or call deny_callout(context, msg).  `kind` "nohook" stands for a
\* message that process answers without invoking any hook.
BaseRet ==
  [kind |-> "return", type |-> "NoneType", tag |-> None, full |-> EmptyResponse,
   msg |-> None, data |-> None, modified |-> FALSE, close |-> FALSE]

ReturnNone == BaseRet

NoHook == [BaseRet EXCEPT !.kind = "nohook"]

\* A hook returns a HeadersResponse (empty, or with a mutation), or a BodyResponse
\* or an ImmediateResponse built by the callout_tools helpers.
TypedReturns ==
  {[BaseRet EXCEPT !.type = "HeadersResponse", !.tag = g] : g \in Tags}
    \cup {[BaseRet EXCEPT !.type = t, !.tag = "mut"] :
            t \in {"BodyResponse", "ImmediateResponse"}}

FullReturns ==
  {[BaseRet EXCEPT !.type = "ProcessingResponse", !.full = f] : f \in FullResponses}

Raises == {[BaseRet EXCEPT !.kind = "raise", !.type = "Exception"]}

DenyMsgs == {None, "", "blocked"}

Denies ==
  {[BaseRet EXCEPT !.kind = "deny", !.type = "Exception", !.msg = m] : m \in DenyMsgs}

\* The L4 hooks: on_read_data / on_write_data return a ProcessingResult dataclass
\* (the base class) or a (data, modified) tuple (the example), and
\* should_close_connection returns a bool.
L4Returns ==
  {[BaseRet EXCEPT !.type = t, !.data = d, !.modified = m, !.close = c] :
     t \in {"ProcessingResult", "tuple"}, d \in Data, m \in BOOLEAN, c \in BOOLEAN}

\* on_read_data / on_write_data / should_close_connection of NetworkCalloutServer.
DefaultL4Hooks(callout) ==
  [BaseRet EXCEPT !.type = "ProcessingResult", !.data = callout.data,
                  !.modified = FALSE, !.close = FALSE]

\* A CheckResponse: the google.rpc status code, which field of the
\* http_response oneof is set, and the HTTP status of a denied response.
CheckResponse(code, variant, http) ==
  [status_code |-> code, variant |-> variant, http_status |-> http]

\* CalloutServerAuth.on_check of the base class: status OK, no http_response.
DefaultCheckResponse == CheckResponse(0, "none", None)

\* callout_tools.allow_request() and deny_request(status_code): deny_request
\* leaves the status field unset (code 0).
allow_request == CheckResponse(0, "ok_response", None)
deny_request(status_code) == CheckResponse(0, "denied_response", status_code)

\* HTTP status codes an on_check hook denies with (403 is deny_request's default).
DenyStatusCodes == {403, 401}

\* What on_check can do: return a CheckResponse, or raise.
CheckReturns ==
  {[BaseRet EXCEPT !.type = "CheckResponse", !.full = r] :
     r \in {DefaultCheckResponse, allow_request}
            \cup {deny_request(c) : c \in DenyStatusCodes}}

\* process calling on_request_headers for request trailers too (a variant, to
\* test the claims against).
invoked_hook_on_trailers(callout) ==
  IF callout.variant \in {"request_headers", "request_trailers"}
    THEN "on_request_headers"
  ELSE IF callout.variant = "response_headers" THEN "on_response_headers"
  ELSE IF callout.variant = "request_body" THEN "on_request_body"
  ELSE IF callout.variant = "response_body" THEN "on_response_body"
  ELSE None

\* The hook CalloutServer.process calls for a message: the if / elif chain on
\* callout.HasField enters one branch at most, and each branch calls one hook.
invoked_hook(callout) ==
  IF callout.variant = "request_headers" THEN "on_request_headers"
  ELSE IF callout.variant = "response_headers" THEN "on_response_headers"
  ELSE IF callout.variant = "request_body" THEN "on_request_body"
  ELSE IF callout.variant = "response_body" THEN "on_response_body"
  ELSE None

HookOutcomes(s, callout) ==
  IF s = "extproc"
    THEN IF invoked_hook(callout) # None
           THEN {ReturnNone} \cup TypedReturns \cup FullReturns \cup Raises \cup Denies
           ELSE {NoHook}
  ELSE IF s = "l4"
    THEN IF callout.variant \in {"read_data", "write_data"}
           THEN L4Returns \cup {DefaultL4Hooks(callout)} \cup Raises \cup Denies
           ELSE {NoHook}
  ELSE CheckReturns \cup Raises

\* The result of evaluating a Python expression: a value, or a propagating exception.
Returned(resp) == [raised |-> FALSE, resp |-> resp]
Raised == [raised |-> TRUE, resp |-> EmptyResponse]

\* The protobuf constructor ProcessingResponse(<field>=<value>): a keyword whose
\* value is None is the same as no keyword at all (the field stays unset), a
\* message of the field's type is copied in (the field is set, even when the
\* message is empty), and a message of another type is a TypeError.
NewProcessingResponse(field, fieldType, ret) ==
  IF ret.type = "NoneType" THEN Returned(EmptyResponse)
  ELSE IF ret.type = fieldType THEN Returned(Response(field, ret.tag, None))
  ELSE Raised

\* process with the ProcessingResponse and ImmediateResponse cases of the two
\* request hooks lost: every result is wrapped into the message's own variant.
process_wrapping_all(callout, ret) ==
  IF callout.variant = "request_headers" THEN
       NewProcessingResponse("request_headers", "HeadersResponse",
                             [ret EXCEPT !.type = IF ret.type = "NoneType"
                                                    THEN "NoneType" ELSE "HeadersResponse"])
  ELSE IF callout.variant = "response_headers" THEN
       NewProcessingResponse("response_headers", "HeadersResponse", ret)
  ELSE IF callout.variant = "request_body" THEN
       NewProcessingResponse("request_body", "BodyResponse",
                             [ret EXCEPT !.type = IF ret.type = "NoneType"
                                                    THEN "NoneType" ELSE "BodyResponse"])
  ELSE IF callout.variant = "response_body" THEN
       NewProcessingResponse("response_body", "BodyResponse", ret)
  ELSE Returned(EmptyResponse)

\* process with the ImmediateResponse case in all four hooks (a variant, to test
\* the claims against).
process_immediate_in_all_hooks(callout, ret) ==
  IF callout.variant \in HookVariants /\ ret.type = "ImmediateResponse"
    THEN NewProcessingResponse("immediate_response", "ImmediateResponse", ret)
  ELSE IF callout.variant = "request_headers" THEN
       IF ret.type = "ProcessingResponse" THEN Returned(ret.full)
       ELSE NewProcessingResponse("request_headers", "HeadersResponse", ret)
  ELSE IF callout.variant = "response_headers" THEN
       NewProcessingResponse("response_headers", "HeadersResponse", ret)
  ELSE IF callout.variant = "request_body" THEN
       NewProcessingResponse("request_body", "BodyResponse", ret)
  ELSE IF callout.variant = "response_body" THEN
       NewProcessingResponse("response_body", "BodyResponse", ret)
  ELSE Returned(EmptyResponse)

\* CalloutServer.process for a hook that returned `ret`.
process(callout, ret) ==
  IF callout.variant = "request_headers" THEN
       IF ret.type = "ProcessingResponse" THEN Returned(ret.full)
       ELSE IF ret.type = "ImmediateResponse"
         THEN NewProcessingResponse("immediate_response", "ImmediateResponse", ret)
       ELSE IF ret.type \in {"HeadersResponse", "NoneType"}
         THEN NewProcessingResponse("request_headers", "HeadersResponse", ret)
       ELSE Returned(EmptyResponse)
  ELSE IF callout.variant = "response_headers" THEN
       NewProcessingResponse("response_headers", "HeadersResponse", ret)
  ELSE IF callout.variant = "request_body" THEN
       IF ret.type = "ImmediateResponse"
         THEN NewProcessingResponse("immediate_response", "ImmediateResponse", ret)
       ELSE IF ret.type \in {"BodyResponse", "NoneType"}
         THEN NewProcessingResponse("request_body", "BodyResponse", ret)
       ELSE Returned(EmptyResponse)
  ELSE IF callout.variant = "response_body" THEN
       NewProcessingResponse("response_body", "BodyResponse", ret)
  ELSE Returned(EmptyResponse)

\* What CalloutServer.process logs while it handles `callout`: the two request
\* branches log a warning in their `case _`, for a hook value of no accepted
\* type; no other path through process logs anything.
process_log(callout, ret) ==
  IF \/ /\ callout.variant = "request_headers"
        /\ ret.type \notin {"ProcessingResponse", "ImmediateResponse",
                             "HeadersResponse", "NoneType"}
     \/ /\ callout.variant = "request_body"
        /\ ret.type \notin {"ImmediateResponse", "BodyResponse", "NoneType"}
    THEN "MALFORMED CALLOUT"
    ELSE None

\* An L4 ProcessingResponse on the wire.
L4Response(variant, data, eos, dps, cs) ==
  [variant |-> variant, data |-> data, end_of_stream |-> eos,
   data_processing_status |-> dps, connection_status |-> cs]

\* The L4 ProcessingResponse(): no data field set, both enums at their zero value.
EmptyL4Response == L4Response("none", None, FALSE, "UNKNOWN", "CONTINUE")

\* process answering every frame on the read path with the inbound bytes (a
\* variant of NetworkCalloutServer.process).
network_process_echo(callout, ret) ==
  IF callout.variant \in {"read_data", "write_data"} THEN
       IF ret.type # "tuple" THEN Raised
       ELSE Returned(L4Response("read_data", callout.data, callout.end_of_stream,
                                IF ret.modified THEN "MODIFIED" ELSE "UNMODIFIED",
                                IF ret.close THEN "CLOSE" ELSE "CONTINUE"))
  ELSE Returned(EmptyL4Response)

\* NetworkCalloutServer.process: `processed_data, modified = self.on_read_data(...)`
\* unpacks the hook's result, which a tuple supports and a dataclass instance
\* does not (TypeError).
network_process(callout, ret) ==
  IF callout.variant \in {"read_data", "write_data"} THEN
       IF ret.type # "tuple" THEN Raised
       ELSE Returned(L4Response(callout.variant, ret.data, callout.end_of_stream,
                                IF ret.modified THEN "MODIFIED" ELSE "UNMODIFIED",
                                IF ret.close THEN "CLOSE" ELSE "CONTINUE"))
  ELSE Returned(EmptyL4Response)

\* _GRPCAuthService.Check -> CalloutServerAuth.Check -> on_check: the hook's
\* CheckResponse is returned as it is; nothing catches what the hook raises.
Check(request, ret) ==
  IF ret.kind = "raise" THEN Raised ELSE Returned(ret.full)

\* deny_callout without its default message.
deny_callout_no_default(msg) ==
  [status |-> "PERMISSION_DENIED", details |-> msg]

\* deny_callout(context, msg): the status and details context.abort ends the RPC with.
deny_callout(msg) ==
  [status |-> "PERMISSION_DENIED",
   details |-> IF msg \in {None, ""} THEN "Callout DENIED." ELSE msg]

\* A loop that takes the newest message instead of the next one.
NextCalloutNewest == received[Len(received)]

\* The message the servicer's `for callout in callout_iterator` loop takes next.
NextCallout == received[Len(handled) + 1]

\* What the loop body `yield self._processor.process(callout, context)` evaluates
\* to for the hook outcome `ret`.
Processed(callout, ret) ==
  IF svc = "extproc" THEN process(callout, ret)
  ELSE IF svc = "l4" THEN network_process(callout, ret)
  ELSE Check(callout, ret)

\* The gRPC runtime's status for a servicer generator that raised: an exception
\* other than the one of context.abort ends the RPC with UNKNOWN.
UnexpectedExceptionStatus ==
  [status |-> "UNKNOWN", details |-> "Exception iterating responses"]

\* What one iteration of the servicer's loop does with a message: yield a
\* response and go on, or let an exception leave the generator, which ends the
\* RPC with the status context.abort set or, failing that, the runtime's.
Yield(resp) == [emit |-> TRUE, resp |-> resp, status |-> "OPEN", details |-> None]
Abort(st) == [emit |-> FALSE, resp |-> None, status |-> st.status, details |-> st.details]

\* A loop that swallows a hook's exception and answers with an empty response.
IterationSwallowing(callout, ret) ==
  IF ret.kind = "deny" THEN Abort(deny_callout(ret.msg))
  ELSE IF ret.kind = "raise" \/ Processed(callout, ret).raised
    THEN Yield(IF svc = "extproc" THEN EmptyResponse ELSE EmptyL4Response)
  ELSE Yield(Processed(callout, ret).resp)

Iteration(callout, ret) ==
  IF ret.kind = "deny" THEN Abort(deny_callout(ret.msg))
  ELSE IF ret.kind = "raise" \/ Processed(callout, ret).raised
    THEN Abort(UnexpectedExceptionStatus)
  ELSE Yield(Processed(callout, ret).resp)

InitRPC ==
  /\ svc \in {"extproc", "l4", "authz"}
  /\ received = <<>>
  /\ handled = <<>>
  /\ outbound = <<>>
  /\ rpcStatus = "OPEN"
  /\ rpcDetails = None

\* The concurrent streams of one server.
StreamIds == {1, 2}

\* A stream that has just been opened.
NewStream == [received |-> <<>>, handled |-> <<>>, outbound |-> <<>>, status |-> "OPEN"]

InitStream ==
  /\ InitRPC
  /\ conc = [streams |-> [s \in StreamIds |-> NewStream], sameWorker |-> FALSE]

\* How many messages the client sends on one RPC: Check is unary.
StreamLimit ==
  IF svc = "extproc" THEN MaxStream ELSE IF svc = "l4" THEN MaxFrames ELSE 1

\* The proxy sends one more message on the stream.
Send(m) ==
  /\ rpcStatus = "OPEN"
  /\ Len(received) < StreamLimit
  /\ received' = Append(received, m)
  /\ UNCHANGED <<svc, handled, outbound, rpcStatus, rpcDetails, conc, lifeVars, cfgVars, toolVars>>

\* A request iterator that goes on after the RPC was cancelled (a variant, to
\* test the claims against).
IteratorYieldsAfterCancel == rpcStatus \in {"OPEN", "CANCELLED"}

\* `for callout in callout_iterator`: the request iterator hands out a message
\* only while the RPC is active; once it is cancelled or has ended, the loop is
\* over.
IteratorYields == rpcStatus = "OPEN"

\* One iteration of _GRPCCalloutService.Process (either servicer): take the next
\* message, run process on it with the hook doing `ret`, and yield the response;
\* an exception leaves the generator and ends the RPC.
Process(ret) ==
  /\ IteratorYields
  /\ Len(handled) < Len(received)
  /\ ret \in HookOutcomes(svc, NextCallout)
  /\ LET it == Iteration(NextCallout, ret)
     IN  /\ handled' = Append(handled,
                               [callout |-> NextCallout, ret |-> ret,
                                hook |-> IF svc = "extproc"
                                           THEN invoked_hook(NextCallout) ELSE None,
                                log |-> IF svc = "extproc" /\ ret.kind \in {"return", "nohook"}
                                          THEN process_log(NextCallout, ret)
                                          ELSE None])
         /\ outbound' = IF it.emit THEN Append(outbound, it.resp) ELSE outbound
         /\ rpcStatus' = it.status
         /\ rpcDetails' = it.details
  /\ UNCHANGED <<svc, received, conc, lifeVars, cfgVars, toolVars>>

\* The request iterator is exhausted: the generator returns and the RPC ends OK
\* (a unary Check RPC ends OK once its one response is returned).
Complete ==
  /\ rpcStatus = "OPEN"
  /\ Len(handled) = Len(received)
  /\ svc = "authz" => Len(handled) = 1
  /\ rpcStatus' = "OK"
  /\ UNCHANGED <<svc, received, handled, outbound, rpcDetails, conc, lifeVars, cfgVars, toolVars>>

\* The transport context is cancelled (client disconnect, deadline): the request
\* iterator stops and no further message is read.
Cancel ==
  /\ rpcStatus = "OPEN"
  /\ rpcStatus' = "CANCELLED"
  /\ UNCHANGED <<svc, received, handled, outbound, rpcDetails, conc, lifeVars, cfgVars, toolVars>>

AllOutcomes ==
  {ReturnNone, NoHook} \cup TypedReturns \cup FullReturns \cup Raises \cup Denies
    \cup L4Returns \cup CheckReturns

NextStream ==
  \/ \E m \in Messages(svc) : Send(m)
  \/ \E ret \in AllOutcomes : Process(ret)
  \/ Complete
  \/ Cancel

(***************************************************************************)
(* Concurrent streams: each RPC runs its own Process generator over its    *)
(* own request iterator; the servicer and the processor instance of a      *)
(* worker are shared by the streams that worker serves.                    *)
(***************************************************************************)

\* A worker that hands its loop the newest message of any stream it serves (a
\* variant, to test the claims against).
ConcCalloutShared(s) ==
  LET mine == conc.streams[s]
      others == {t \in StreamIds : t # s /\ conc.sameWorker
                                    /\ conc.streams[t].received # <<>>}
  IN  IF others = {} THEN mine.received[Len(mine.handled) + 1]
      ELSE LET t == CHOOSE t \in others : TRUE
           IN  conc.streams[t].received[Len(conc.streams[t].received)]

\* The message the loop of stream s takes next from its own request iterator.
ConcCallout(s) == conc.streams[s].received[Len(conc.streams[s].handled) + 1]

\* The messages received on all streams together.
ConcReceived == Len(conc.streams[1].received) + Len(conc.streams[2].received)

InitStreams ==
  /\ InitRPC
  /\ svc = "extproc"
  /\ conc \in [streams : {[s \in StreamIds |-> NewStream]}, sameWorker : BOOLEAN]

\* The proxy sends one more message on stream s.
ConcSend(s, m) ==
  /\ conc.streams[s].status = "OPEN"
  /\ ConcReceived < MaxConcurrent
  /\ conc' = [conc EXCEPT !.streams[s].received = Append(@, m)]
  /\ UNCHANGED <<svc, received, handled, outbound, rpcStatus, rpcDetails, lifeVars, cfgVars, toolVars>>

\* One iteration of _GRPCCalloutService.Process on stream s.
ConcProcess(s, ret) ==
  /\ conc.streams[s].status = "OPEN"
  /\ Len(conc.streams[s].handled) < Len(conc.streams[s].received)
  /\ ret \in HookOutcomes(svc, ConcCallout(s))
  /\ LET it == Iteration(ConcCallout(s), ret)
     IN  conc' = [conc EXCEPT
                    !.streams[s].handled =
                       Append(@, [callout |-> ConcCallout(s), ret |-> ret]),
                    !.streams[s].outbound = IF it.emit THEN Append(@, it.resp) ELSE @,
                    !.streams[s].status = it.status]
  /\ UNCHANGED <<svc, received, handled, outbound, rpcStatus, rpcDetails, lifeVars, cfgVars, toolVars>>

\* The request iterator of stream s is exhausted: the generator returns.
ConcComplete(s) ==
  /\ conc.streams[s].status = "OPEN"
  /\ Len(conc.streams[s].handled) = Len(conc.streams[s].received)
  /\ conc' = [conc EXCEPT !.streams[s].status = "OK"]
  /\ UNCHANGED <<svc, received, handled, outbound, rpcStatus, rpcDetails, lifeVars, cfgVars, toolVars>>

NextStreams ==
  \/ \E s \in StreamIds, m \in Messages(svc) : ConcSend(s, m)
  \/ \E s \in StreamIds, ret \in AllOutcomes : ConcProcess(s, ret)
  \/ \E s \in StreamIds : ConcComplete(s)

(***************************************************************************)
(* Part 2.  The lifecycle of CalloutServer (ext-proc): run(), shutdown(),  *)
(* the health-check HTTPServer and the gRPC worker processes.  Threads     *)
(* interleave between the attribute reads and writes of the methods.       *)
(***************************************************************************)

\* The threads other than run()'s that call shutdown().
Callers == {1, 2}
Threads == {0} \cup Callers
\* The thread that calls run().
RunThread == 0
Procs == 1..NumProcesses
\* List objects: the one __init__ creates, and one per assignment in shutdown().
ListIds == 0..(Cardinality(Callers) + 1)

StepNames == {"event_set", "hc_shutdown", "hc_close", "workers_joined", "grpc_stop"}

\* HTTPServer as socketserver.BaseServer keeps it: serve_forever() runs, the
\* __shutdown_request flag, the __is_shut_down event, and the listening socket.
NewHTTPServer ==
  [serving |-> FALSE, shutdownRequest |-> FALSE, isShutDown |-> FALSE,
   socketClosed |-> FALSE]

\* A worker process has ended.
Ended(p) == proc[p] \in {"exited", "terminated"}

\* CalloutServer.__init__ of the supervising instance.
InitLife ==
  /\ kind \in {"extproc", "auth", "network"}
  /\ healthCheck \in BOOLEAN
  /\ setup = FALSE
  /\ shutdownInitiated = FALSE
  /\ closed = FALSE
  /\ hcServer = None
  /\ hc = NewHTTPServer
  /\ event = FALSE
  /\ grpc = "STOPPED"
  /\ lists = [l \in ListIds |-> <<>>]
  /\ workerList = 0
  /\ proc = [p \in Procs |-> "unborn"]
  /\ pc = [t \in Threads |-> "idle"]
  /\ runI = 0
  /\ iter = [t \in Threads |-> [list |-> 0, idx |-> 1]]
  /\ runCalls = 0
  /\ shutdownCalls = 0
  /\ late = [t \in Callers |-> FALSE]
  /\ stray = FALSE
  /\ raised = {}
  /\ steps = [n \in StepNames |-> 0]

Goto(t, label) == pc' = [pc EXCEPT ![t] = label]

\* ---- run() ----

\* A thread calls run().
RunCall ==
  /\ kind = "extproc"
  /\ pc[RunThread] \in {"idle", "returned"}
  /\ runCalls < MaxRunCalls
  /\ runCalls' = runCalls + 1
  /\ Goto(RunThread, "r_guard")
  /\ UNCHANGED <<streamVars, cfgVars, toolVars, stray, kind, grpc, late, healthCheck, setup, shutdownInitiated, closed, hcServer, hc, event,
                 lists, workerList, proc, runI, iter, shutdownCalls, raised, steps>>

\* run() without its guards (a variant, to test the claims against).
RunGuardMissing ==
  /\ pc[RunThread] = "r_guard"
  /\ Goto(RunThread, "r_clear")
  /\ UNCHANGED <<streamVars, cfgVars, toolVars, stray, kind, grpc, late, healthCheck, setup, shutdownInitiated, closed, hcServer, hc, event,
                 lists, workerList, proc, runI, iter, runCalls, shutdownCalls, raised,
                 steps>>

\* The guards of run(): already running, or shut down.
RunGuard ==
  /\ pc[RunThread] = "r_guard"
  /\ IF (setup /\ ~closed) \/ closed
       THEN Goto(RunThread, "returned")
       ELSE Goto(RunThread, "r_clear")
  /\ UNCHANGED <<streamVars, cfgVars, toolVars, stray, kind, grpc, late, healthCheck, setup, shutdownInitiated, closed, hcServer, hc, event,
                 lists, workerList, proc, runI, iter, runCalls, shutdownCalls, raised,
                 steps>>

\* self._grpc_shutdown_event.clear()
RunClearEvent ==
  /\ pc[RunThread] = "r_clear"
  /\ event' = FALSE
  /\ Goto(RunThread, "r_hc")
  /\ UNCHANGED <<streamVars, cfgVars, toolVars, stray, kind, grpc, late, healthCheck, setup, shutdownInitiated, closed, hcServer, hc, lists,
                 workerList, proc, runI, iter, runCalls, shutdownCalls, raised, steps>>

\* _start_servers: bind the health-check HTTPServer when an address is set.
RunBindHealthCheck ==
  /\ pc[RunThread] = "r_hc"
  /\ IF healthCheck
       THEN hcServer' = "server" /\ hc' = NewHTTPServer
       ELSE UNCHANGED <<hcServer, hc>>
  /\ runI' = 0
  /\ Goto(RunThread, "r_append")
  /\ UNCHANGED <<streamVars, cfgVars, toolVars, stray, kind, grpc, late, healthCheck, setup, shutdownInitiated, closed, event, lists,
                 workerList, proc, iter, runCalls, shutdownCalls, raised, steps>>

\* _start_servers: create worker i+1 and append it to self._grpc_worker_processes;
\* after the last worker, run() sets _setup and clears _closed.
RunAppendWorker ==
  /\ pc[RunThread] = "r_append"
  /\ IF runI < NumProcesses
       THEN /\ proc' = [proc EXCEPT ![runI + 1] = "created"]
            /\ lists' = [lists EXCEPT ![workerList] = Append(@, runI + 1)]
            /\ Goto(RunThread, "r_start")
            /\ UNCHANGED <<setup, closed>>
       ELSE /\ setup' = TRUE
            /\ closed' = FALSE
            /\ Goto(RunThread, "r_loop")
            /\ UNCHANGED <<proc, lists>>
  /\ UNCHANGED <<streamVars, cfgVars, toolVars, stray, kind, grpc, late, healthCheck, shutdownInitiated, hcServer, hc, event, workerList, runI,
                 iter, runCalls, shutdownCalls, raised, steps>>

\* _start_servers: process.start()
RunStartWorker ==
  /\ pc[RunThread] = "r_start"
  /\ proc' = [proc EXCEPT ![runI + 1] = "alive"]
  /\ runI' = runI + 1
  /\ Goto(RunThread, "r_append")
  /\ UNCHANGED <<streamVars, cfgVars, toolVars, stray, kind, grpc, late, healthCheck, setup, shutdownInitiated, closed, hcServer, hc, event,
                 lists, workerList, iter, runCalls, shutdownCalls, raised, steps>>

\* _loop_server: enter serve_forever() of the health-check server (which clears
\* its is-shut-down event), or wait on the shutdown event when there is none.
RunLoop ==
  /\ pc[RunThread] = "r_loop"
  /\ IF hcServer # None
       THEN /\ hc' = [hc EXCEPT !.serving = TRUE, !.isShutDown = FALSE]
            /\ Goto(RunThread, "r_serving")
       ELSE /\ Goto(RunThread, "r_wait")
            /\ UNCHANGED hc
  /\ UNCHANGED <<streamVars, cfgVars, toolVars, stray, kind, grpc, late, healthCheck, setup, shutdownInitiated, closed, hcServer, event, lists,
                 workerList, proc, runI, iter, runCalls, shutdownCalls, raised, steps>>

\* run() is blocked in _loop_server.
RunBlocked == pc[RunThread] \in {"r_serving", "r_wait"}

\* serve_forever() sees the shutdown request, resets it and sets is-shut-down;
\* run() goes on to its finally block and calls shutdown().
RunServeForeverExit ==
  /\ pc[RunThread] = "r_serving"
  /\ hc.shutdownRequest
  /\ hc' = [hc EXCEPT !.serving = FALSE, !.shutdownRequest = FALSE, !.isShutDown = TRUE]
  /\ Goto(RunThread, "s_guard")
  /\ UNCHANGED <<streamVars, cfgVars, toolVars, stray, kind, grpc, late, healthCheck, setup, shutdownInitiated, closed, hcServer, event, lists,
                 workerList, proc, runI, iter, runCalls, shutdownCalls, raised, steps>>

\* self._grpc_shutdown_event.wait() returns; run() calls shutdown() in finally.
RunWaitExit ==
  /\ pc[RunThread] = "r_wait"
  /\ event
  /\ Goto(RunThread, "s_guard")
  /\ UNCHANGED <<streamVars, cfgVars, toolVars, stray, kind, grpc, late, healthCheck, setup, shutdownInitiated, closed, hcServer, hc, event,
                 lists, workerList, proc, runI, iter, runCalls, shutdownCalls, raised,
                 steps>>

\* KeyboardInterrupt (SIGINT) in _loop_server: caught by run(), which calls
\* shutdown() in finally.
RunInterrupt ==
  /\ RunBlocked
  /\ hc' = IF pc[RunThread] = "r_serving"
             THEN [hc EXCEPT !.serving = FALSE, !.shutdownRequest = FALSE,
                             !.isShutDown = TRUE]
             ELSE hc
  /\ Goto(RunThread, "s_guard")
  /\ UNCHANGED <<streamVars, cfgVars, toolVars, stray, kind, grpc, late, healthCheck, setup, shutdownInitiated, closed, hcServer, event, lists,
                 workerList, proc, runI, iter, runCalls, shutdownCalls, raised, steps>>

\* The end of run()'s finally block: shutdown() returned and _closed is set, or
\* shutdown() raised and the exception leaves run() before _closed is set.
RunFinish ==
  /\ pc[RunThread] \in {"s_done", "s_raised"}
  /\ IF pc[RunThread] = "s_done"
       THEN closed' = TRUE /\ UNCHANGED raised
       ELSE UNCHANGED closed /\ raised' = raised \cup {RunThread}
  /\ Goto(RunThread, "returned")
  /\ UNCHANGED <<streamVars, cfgVars, toolVars, stray, kind, grpc, late, healthCheck, setup, shutdownInitiated, hcServer, hc, event, lists,
                 workerList, proc, runI, iter, runCalls, shutdownCalls, steps>>

\* The shutdown() calls of the other threads that have returned or raised.
EndedCalls == shutdownCalls - Cardinality({t \in Callers : pc[t] # "idle"})

\* ---- shutdown(), run by thread t (run()'s own thread in its finally) ----

\* Another thread calls shutdown().
ShutdownCall(t) ==
  /\ kind = "extproc"
  /\ t \in Callers
  /\ pc[t] = "idle"
  /\ shutdownCalls < MaxShutdownCalls
  /\ shutdownCalls' = shutdownCalls + 1
  /\ late' = [late EXCEPT ![t] = EndedCalls >= 1]
  /\ stray' = (stray \/ ~RunBlocked)
  /\ Goto(t, "s_guard")
  /\ UNCHANGED <<streamVars, cfgVars, toolVars, kind, grpc, healthCheck, setup, shutdownInitiated, closed, hcServer, hc, event,
                 lists, workerList, proc, runI, iter, runCalls, raised, steps>>

\* shutdown() without its guard (a variant, to test the claims against).
ShutdownGuardMissing(t) ==
  /\ pc[t] = "s_guard"
  /\ Goto(t, "s_mark")
  /\ UNCHANGED <<streamVars, cfgVars, toolVars, stray, kind, grpc, late, healthCheck, setup, shutdownInitiated, closed, hcServer, hc, event,
                 lists, workerList, proc, runI, iter, runCalls, shutdownCalls, raised,
                 steps>>

\* `if self._shutdown_initiated: return`
ShutdownGuard(t) ==
  /\ pc[t] = "s_guard"
  /\ IF shutdownInitiated THEN Goto(t, "s_done") ELSE Goto(t, "s_mark")
  /\ UNCHANGED <<streamVars, cfgVars, toolVars, stray, kind, grpc, late, healthCheck, setup, shutdownInitiated, closed, hcServer, hc, event,
                 lists, workerList, proc, runI, iter, runCalls, shutdownCalls, raised,
                 steps>>

\* `self._shutdown_initiated = True`
ShutdownMark(t) ==
  /\ pc[t] = "s_mark"
  /\ shutdownInitiated' = TRUE
  /\ Goto(t, "s_event")
  /\ UNCHANGED <<streamVars, cfgVars, toolVars, stray, kind, grpc, late, healthCheck, setup, closed, hcServer, hc, event, lists, workerList,
                 proc, runI, iter, runCalls, shutdownCalls, raised, steps>>

\* `self._grpc_shutdown_event.set()`
ShutdownSetEvent(t) ==
  /\ pc[t] = "s_event"
  /\ event' = TRUE
  /\ steps' = [steps EXCEPT !["event_set"] = @ + 1]
  /\ Goto(t, "s_hc_check")
  /\ UNCHANGED <<streamVars, cfgVars, toolVars, stray, kind, grpc, late, healthCheck, setup, shutdownInitiated, closed, hcServer, hc, lists,
                 workerList, proc, runI, iter, runCalls, shutdownCalls, raised>>

\* `if ... self._health_check_server:`
ShutdownCheckHealthCheck(t) ==
  /\ pc[t] = "s_hc_check"
  /\ IF hcServer # None THEN Goto(t, "s_hc_shutdown") ELSE Goto(t, "s_join_init")
  /\ UNCHANGED <<streamVars, cfgVars, toolVars, stray, kind, grpc, late, healthCheck, setup, shutdownInitiated, closed, hcServer, hc, event,
                 lists, workerList, proc, runI, iter, runCalls, shutdownCalls, raised,
                 steps>>

\* `self._health_check_server.shutdown()`: the attribute is read again (None has
\* no shutdown: AttributeError); HTTPServer.shutdown() sets the request flag...
ShutdownHealthCheck(t) ==
  /\ pc[t] = "s_hc_shutdown"
  /\ IF hcServer = None
       THEN Goto(t, "s_raised") /\ UNCHANGED <<hc, steps>>
       ELSE /\ hc' = [hc EXCEPT !.shutdownRequest = TRUE]
            /\ steps' = [steps EXCEPT !["hc_shutdown"] = @ + 1]
            /\ Goto(t, "s_hc_wait")
  /\ UNCHANGED <<streamVars, cfgVars, toolVars, stray, kind, grpc, late, healthCheck, setup, shutdownInitiated, closed, hcServer, event, lists,
                 workerList, proc, runI, iter, runCalls, shutdownCalls, raised>>

\* ... and waits until serve_forever() has set the is-shut-down event.
ShutdownHealthCheckWait(t) ==
  /\ pc[t] = "s_hc_wait"
  /\ hc.isShutDown
  /\ Goto(t, "s_hc_close")
  /\ UNCHANGED <<streamVars, cfgVars, toolVars, stray, kind, grpc, late, healthCheck, setup, shutdownInitiated, closed, hcServer, hc, event,
                 lists, workerList, proc, runI, iter, runCalls, shutdownCalls, raised,
                 steps>>

\* `self._health_check_server.server_close()`: the attribute is read again.
ShutdownCloseHealthCheck(t) ==
  /\ pc[t] = "s_hc_close"
  /\ IF hcServer = None
       THEN Goto(t, "s_raised") /\ UNCHANGED <<hc, steps>>
       ELSE /\ hc' = [hc EXCEPT !.socketClosed = TRUE]
            /\ steps' = [steps EXCEPT !["hc_close"] = @ + 1]
            /\ Goto(t, "s_hc_none")
  /\ UNCHANGED <<streamVars, cfgVars, toolVars, stray, kind, grpc, late, healthCheck, setup, shutdownInitiated, closed, hcServer, event, lists,
                 workerList, proc, runI, iter, runCalls, shutdownCalls, raised>>

\* `self._health_check_server = None`
ShutdownDropHealthCheck(t) ==
  /\ pc[t] = "s_hc_none"
  /\ hcServer' = None
  /\ Goto(t, "s_join_init")
  /\ UNCHANGED <<streamVars, cfgVars, toolVars, stray, kind, grpc, late, healthCheck, setup, shutdownInitiated, closed, hc, event, lists,
                 workerList, proc, runI, iter, runCalls, shutdownCalls, raised, steps>>

\* `for process in self._grpc_worker_processes:` takes an iterator over the list
\* object the attribute is bound to.
ShutdownJoinInit(t) ==
  /\ pc[t] = "s_join_init"
  /\ iter' = [iter EXCEPT ![t] = [list |-> workerList, idx |-> 1]]
  /\ Goto(t, "s_join")
  /\ UNCHANGED <<streamVars, cfgVars, toolVars, stray, kind, grpc, late, healthCheck, setup, shutdownInitiated, closed, hcServer, hc, event,
                 lists, workerList, proc, runI, runCalls, shutdownCalls, raised, steps>>

\* The process the iterator of thread t is at.
IterProc(t) == lists[iter[t].list][iter[t].idx]

\* The list a finished join loop binds to self._grpc_worker_processes: a new,
\* empty list object.
FreshList == steps["workers_joined"] + 1

\* One turn of the loop: `if process.is_alive():` join it, else skip it; when the
\* iterator is exhausted, `self._grpc_worker_processes = []` and shutdown() returns.
ShutdownJoinNext(t) ==
  /\ pc[t] = "s_join"
  /\ IF iter[t].idx > Len(lists[iter[t].list])
       THEN /\ workerList' = FreshList
            /\ steps' = [steps EXCEPT !["workers_joined"] = @ + 1]
            /\ Goto(t, "s_done")
            /\ UNCHANGED iter
       ELSE /\ IF proc[IterProc(t)] = "alive"
                 THEN Goto(t, "s_joining") /\ UNCHANGED iter
                 ELSE /\ iter' = [iter EXCEPT ![t].idx = @ + 1]
                      /\ UNCHANGED pc
            /\ UNCHANGED <<workerList, steps>>
  /\ UNCHANGED <<streamVars, cfgVars, toolVars, stray, kind, grpc, late, healthCheck, setup, shutdownInitiated, closed, hcServer, hc, event,
                 lists, proc, runI, runCalls, shutdownCalls, raised>>

\* `process.join(timeout=25)`: the worker has exited, or the timeout passes with
\* the worker alive and it is terminated and joined.
ShutdownJoinWorker(t) ==
  /\ pc[t] = "s_joining"
  /\ proc' = IF proc[IterProc(t)] = "alive"
               THEN [proc EXCEPT ![IterProc(t)] = "terminated"]
               ELSE proc
  /\ iter' = [iter EXCEPT ![t].idx = @ + 1]
  /\ Goto(t, "s_join")
  /\ UNCHANGED <<streamVars, cfgVars, toolVars, stray, kind, grpc, late, healthCheck, setup, shutdownInitiated, closed, hcServer, hc, event,
                 lists, workerList, runI, runCalls, shutdownCalls, raised, steps>>

\* shutdown() returns to (or raises in) a thread other than run()'s.
ShutdownReturn(t) ==
  /\ t \in Callers
  /\ pc[t] \in {"s_done", "s_raised"}
  /\ raised' = IF pc[t] = "s_raised" THEN raised \cup {t} ELSE raised
  /\ late' = [late EXCEPT ![t] = FALSE]
  /\ Goto(t, "idle")
  /\ UNCHANGED <<streamVars, cfgVars, toolVars, stray, kind, grpc, healthCheck, setup, shutdownInitiated, closed, hcServer, hc, event,
                 lists, workerList, proc, runI, iter, runCalls, shutdownCalls, steps>>

\* run_grpc_worker_entrypoint: the worker's shutdown_event.wait() returns, it
\* stops its gRPC server and the process exits.
WorkerExit(p) ==
  /\ proc[p] = "alive"
  /\ event
  /\ proc' = [proc EXCEPT ![p] = "exited"]
  /\ UNCHANGED <<streamVars, cfgVars, toolVars, stray, kind, grpc, late, healthCheck, setup, shutdownInitiated, closed, hcServer, hc, event,
                 lists, workerList, pc, runI, iter, runCalls, shutdownCalls, raised,
                 steps>>

RunStep ==
  \/ RunGuard
  \/ RunClearEvent
  \/ RunBindHealthCheck
  \/ RunAppendWorker
  \/ RunStartWorker
  \/ RunLoop
  \/ RunServeForeverExit
  \/ RunWaitExit
  \/ RunFinish

ShutdownStep(t) ==
  \/ ShutdownGuard(t)
  \/ ShutdownMark(t)
  \/ ShutdownSetEvent(t)
  \/ ShutdownCheckHealthCheck(t)
  \/ ShutdownHealthCheck(t)
  \/ ShutdownHealthCheckWait(t)
  \/ ShutdownCloseHealthCheck(t)
  \/ ShutdownDropHealthCheck(t)
  \/ ShutdownJoinInit(t)
  \/ ShutdownJoinNext(t)
  \/ ShutdownJoinWorker(t)

NextLife ==
  \/ RunCall
  \/ RunStep
  \/ RunInterrupt
  \/ \E t \in Callers : ShutdownCall(t) \/ ShutdownReturn(t)
  \/ \E t \in Threads : ShutdownStep(t)
  \/ \E p \in Procs : WorkerExit(p)

(***************************************************************************)
(* Part 3.  The lifecycle of CalloutServerAuth (ext-authz) and of          *)
(* NetworkCalloutServer (L4), whose run(), _start_servers, _loop_server,   *)
(* _stop_servers and shutdown() are the same code: one in-process gRPC     *)
(* server, an optional health-check HTTPServer, and no shutdown guard.     *)
(***************************************************************************)

\* The fields only CalloutServer (ext-proc) has.
extprocOnly == <<shutdownInitiated, event, lists, workerList, proc, runI, iter, raised>>

\* A thread calls run().
AuthRunCall ==
  /\ kind # "extproc"
  /\ pc[RunThread] = "idle"
  /\ runCalls = 0
  /\ runCalls' = 1
  /\ Goto(RunThread, "a_bind")
  /\ UNCHANGED <<streamVars, cfgVars, toolVars, stray, extprocOnly, kind, healthCheck, setup, closed, hcServer, hc,
                 grpc, shutdownCalls, late, steps>>

\* _start_servers: bind the health-check HTTPServer when an address is set.
AuthBindHealthCheck ==
  /\ pc[RunThread] = "a_bind"
  /\ IF healthCheck
       THEN hcServer' = "server" /\ hc' = NewHTTPServer
       ELSE UNCHANGED <<hcServer, hc>>
  /\ Goto(RunThread, "a_grpc_start")
  /\ UNCHANGED <<streamVars, cfgVars, toolVars, stray, extprocOnly, kind, healthCheck, setup, closed, grpc,
                 runCalls, shutdownCalls, late, steps>>

\* _start_servers: self._callout_server.start(); then run() sets _setup.
AuthStartGrpc ==
  /\ pc[RunThread] = "a_grpc_start"
  /\ grpc' = "STARTED"
  /\ setup' = TRUE
  /\ Goto(RunThread, "a_loop")
  /\ UNCHANGED <<streamVars, cfgVars, toolVars, stray, extprocOnly, kind, healthCheck, closed, hcServer, hc,
                 runCalls, shutdownCalls, late, steps>>

\* _loop_server: serve_forever() of the health-check server, or the gRPC
\* server's wait_for_termination() when there is none.
AuthLoop ==
  /\ pc[RunThread] = "a_loop"
  /\ IF hcServer # None
       THEN /\ hc' = [hc EXCEPT !.serving = TRUE, !.isShutDown = FALSE]
            /\ Goto(RunThread, "a_serving")
       ELSE /\ Goto(RunThread, "a_wait")
            /\ UNCHANGED hc
  /\ UNCHANGED <<streamVars, cfgVars, toolVars, stray, extprocOnly, kind, healthCheck, setup, closed, hcServer,
                 grpc, runCalls, shutdownCalls, late, steps>>

\* run() is blocked in _loop_server.
AuthBlocked == pc[RunThread] \in {"a_serving", "a_wait"}

\* serve_forever() sees the shutdown request, or wait_for_termination() sees the
\* gRPC server stopped; run() goes on to _stop_servers in its finally block.
AuthLoopExit ==
  /\ \/ /\ pc[RunThread] = "a_serving"
        /\ hc.shutdownRequest
        /\ hc' = [hc EXCEPT !.serving = FALSE, !.shutdownRequest = FALSE,
                            !.isShutDown = TRUE]
     \/ /\ pc[RunThread] = "a_wait"
        /\ grpc = "STOPPED"
        /\ UNCHANGED hc
  /\ Goto(RunThread, "a_stop_check")
  /\ UNCHANGED <<streamVars, cfgVars, toolVars, stray, extprocOnly, kind, healthCheck, setup, closed, hcServer,
                 grpc, runCalls, shutdownCalls, late, steps>>

\* KeyboardInterrupt in _loop_server: caught by run(), finally runs.
AuthInterrupt ==
  /\ AuthBlocked
  /\ hc' = IF pc[RunThread] = "a_serving"
             THEN [hc EXCEPT !.serving = FALSE, !.shutdownRequest = FALSE,
                             !.isShutDown = TRUE]
             ELSE hc
  /\ Goto(RunThread, "a_stop_check")
  /\ UNCHANGED <<streamVars, cfgVars, toolVars, stray, extprocOnly, kind, healthCheck, setup, closed, hcServer,
                 grpc, runCalls, shutdownCalls, late, steps>>

\* _stop_servers: `if self._health_check_server:` server_close() ...
AuthStopServers ==
  /\ pc[RunThread] = "a_stop_check"
  /\ IF hcServer # None
       THEN /\ hc' = [hc EXCEPT !.socketClosed = TRUE]
            /\ steps' = [steps EXCEPT !["hc_close"] = @ + 1]
            /\ Goto(RunThread, "a_hc_shutdown")
       ELSE /\ Goto(RunThread, "a_grpc_stop")
            /\ UNCHANGED <<hc, steps>>
  /\ UNCHANGED <<streamVars, cfgVars, toolVars, stray, extprocOnly, kind, healthCheck, setup, closed, hcServer,
                 grpc, runCalls, shutdownCalls, late>>

\* Another thread calls shutdown().
AuthShutdownCall(t) ==
  /\ kind # "extproc"
  /\ t \in Callers
  /\ pc[t] = "idle"
  /\ shutdownCalls < MaxShutdownCalls
  /\ shutdownCalls' = shutdownCalls + 1
  /\ late' = [late EXCEPT ![t] = EndedCalls >= 1]
  /\ stray' = (stray \/ ~AuthBlocked)
  /\ Goto(t, "a_check")
  /\ UNCHANGED <<streamVars, cfgVars, toolVars, extprocOnly, kind, healthCheck, setup, closed, hcServer, hc,
                 grpc, runCalls, steps>>

\* shutdown(): `if self._health_check_server:`
AuthShutdownCheck(t) ==
  /\ pc[t] = "a_check"
  /\ IF hcServer # None THEN Goto(t, "a_hc_shutdown") ELSE Goto(t, "a_grpc_stop")
  /\ UNCHANGED <<streamVars, cfgVars, toolVars, stray, extprocOnly, kind, healthCheck, setup, closed, hcServer, hc,
                 grpc, runCalls, shutdownCalls, late, steps>>

\* `self._health_check_server.shutdown()`, in shutdown() and in _stop_servers:
\* HTTPServer.shutdown() sets the request flag ...
AuthHealthCheckShutdown(t) ==
  /\ pc[t] = "a_hc_shutdown"
  /\ hc' = [hc EXCEPT !.shutdownRequest = TRUE]
  /\ steps' = [steps EXCEPT !["hc_shutdown"] = @ + 1]
  /\ Goto(t, "a_hc_wait")
  /\ UNCHANGED <<streamVars, cfgVars, toolVars, stray, extprocOnly, kind, healthCheck, setup, closed, hcServer,
                 grpc, runCalls, shutdownCalls, late>>

\* ... and waits until serve_forever() has set the is-shut-down event.
AuthHealthCheckWait(t) ==
  /\ pc[t] = "a_hc_wait"
  /\ hc.isShutDown
  /\ Goto(t, "a_grpc_stop")
  /\ UNCHANGED <<streamVars, cfgVars, toolVars, stray, extprocOnly, kind, healthCheck, setup, closed, hcServer, hc,
                 grpc, runCalls, shutdownCalls, late, steps>>

\* `self._callout_server.stop()`, in shutdown() and in _stop_servers:
\* grpc.Server.stop(grace=10) and wait_for_termination(timeout=10).
AuthGrpcStop(t) ==
  /\ pc[t] = "a_grpc_stop"
  /\ grpc' = "STOPPED"
  /\ steps' = [steps EXCEPT !["grpc_stop"] = @ + 1]
  /\ Goto(t, "a_done")
  /\ UNCHANGED <<streamVars, cfgVars, toolVars, stray, extprocOnly, kind, healthCheck, setup, closed, hcServer, hc,
                 runCalls, shutdownCalls, late>>

\* shutdown() returns to a thread other than run()'s.
AuthShutdownReturn(t) ==
  /\ t \in Callers
  /\ pc[t] = "a_done"
  /\ late' = [late EXCEPT ![t] = FALSE]
  /\ Goto(t, "idle")
  /\ UNCHANGED <<streamVars, cfgVars, toolVars, stray, extprocOnly, kind, healthCheck, setup, closed, hcServer, hc,
                 grpc, runCalls, shutdownCalls, steps>>

\* The end of run()'s finally block: _stop_servers returned, _closed is set.
AuthRunFinish ==
  /\ pc[RunThread] = "a_done"
  /\ closed' = TRUE
  /\ Goto(RunThread, "returned")
  /\ UNCHANGED <<streamVars, cfgVars, toolVars, stray, extprocOnly, kind, healthCheck, setup, hcServer, hc, grpc,
                 runCalls, shutdownCalls, late, steps>>

AuthRunStep ==
  \/ AuthBindHealthCheck
  \/ AuthStartGrpc
  \/ AuthLoop
  \/ AuthLoopExit
  \/ AuthStopServers
  \/ AuthRunFinish

AuthStopStep(t) ==
  \/ AuthShutdownCheck(t)
  \/ AuthHealthCheckShutdown(t)
  \/ AuthHealthCheckWait(t)
  \/ AuthGrpcStop(t)

NextAuth ==
  \/ AuthRunCall
  \/ AuthRunStep
  \/ AuthInterrupt
  \/ \E t \in Callers : AuthShutdownCall(t) \/ AuthShutdownReturn(t)
  \/ \E t \in Threads : AuthStopStep(t)

(***************************************************************************)
(* The health-check endpoint.                                              *)
(***************************************************************************)

\* A GET that got no HTTP response: the connection is refused, or is accepted by
\* a socket nobody serves.
NoAnswer == [answered |-> FALSE, status |-> 0, body |-> <<>>]

\* HealthCheckService.do_GET with a page (a variant, to test the claims against).
do_GET_page == [answered |-> TRUE, status |-> 200, body |-> <<"x">>]

\* HealthCheckService.do_GET: send_response(200), end_headers(), nothing written.
do_GET == [answered |-> TRUE, status |-> 200, body |-> <<>>]

\* run() is blocked in its serve loop and no shutdown has been asked for.
Serving ==
  /\ RunBlocked \/ AuthBlocked
  /\ \A t \in Callers : pc[t] = "idle"
  /\ ~hc.shutdownRequest
  /\ ~event

\* What a client that sends GET / to the health-check address now can get back:
\* serve_forever() hands the request to do_GET; a server that has been told to
\* shut down may or may not still take it; without a serving HTTPServer on an
\* open socket there is no answer.  The request changes nothing of the server.
HealthGet ==
  IF hcServer # None /\ hc.serving /\ ~hc.socketClosed
    THEN IF hc.shutdownRequest THEN {do_GET, NoAnswer} ELSE {do_GET}
    ELSE {NoAnswer}

\* The request methods a client may use on the health-check address.
Methods == {"GET", "POST", "HEAD", "PUT"}

\* BaseHTTPRequestHandler.handle_one_request on a HealthCheckService: the method
\* do_<command> is called when the class has one, and the class has do_GET
\* only; for any other command the base class sends error 501 (Not
\* Implemented, "Unsupported method").
handle_one_request(method) ==
  IF method = "GET" THEN do_GET
  ELSE [answered |-> TRUE, status |-> 501, body |-> <<"Unsupported method">>]

\* What a client that sends a request with this method to the health-check
\* address now can get back.
HealthRequest(method) ==
  IF hcServer # None /\ hc.serving /\ ~hc.socketClosed
    THEN IF hc.shutdownRequest THEN {handle_one_request(method), NoAnswer}
         ELSE {handle_one_request(method)}
    ELSE {NoAnswer}

(***************************************************************************)
(* Part 4.  Construction and startup: what __init__ of the three classes   *)
(* makes of the TLS arguments, which gRPC ports the servicer adds, and     *)
(* whether run() reaches its serve loop.                                   *)
(***************************************************************************)

\* A certificate / key path argument: not given, a readable file, a file that
\* does not exist (FileNotFoundError) or one that cannot be opened
\* (PermissionError).
Paths == {"none", "ok", "missing", "denied"}

\* Values of server_thread_count.
ThreadCounts == {2, 4}

\* The constructor arguments (cert_chain / private_key given as bytes or not)
\* and the environment: whether the secure and plaintext ports are free, and
\* whether the installed grpc raises on a failed bind or returns port 0.
Configs ==
  [key_path : Paths, chain_path : Paths, key_bytes : BOOLEAN, chain_bytes : BOOLEAN,
   secure_health_check : BOOLEAN, disable_plaintext : BOOLEAN,
   secure_free : BOOLEAN, plaintext_free : BOOLEAN, bind_raises : BOOLEAN,
   num_processes : 0..NumProcesses, server_thread_count : ThreadCounts]

\* _read_cert_file(path): the bytes, None, or an exception.  Only
\* CalloutServerAuth catches FileNotFoundError.
read_cert_file(k, path) ==
  IF path = "none" THEN "None"
  ELSE IF path = "ok" THEN "bytes"
  ELSE IF k = "auth" /\ path = "missing" THEN "None"
  ELSE "raise"

\* `private_key or _read_cert_file(private_key_path)` and the same for the chain.
LoadKey(k, c) == IF c.key_bytes THEN "bytes" ELSE read_cert_file(k, c.key_path)
LoadChain(k, c) == IF c.chain_bytes THEN "bytes" ELSE read_cert_file(k, c.chain_path)

\* Where the bytes kept in self.private_key / self.cert_chain come from: the
\* constructor argument, the file at the path, or nowhere.
MaterialFrom(given, loaded) ==
  IF loaded # "bytes" THEN "none" ELSE IF given THEN "argument" ELSE "file"

\* ssl.SSLContext.load_cert_chain(certfile=cert_chain_path, keyfile=private_key_path)
\* succeeds when both files can be read.
load_cert_chain(c) == c.key_path = "ok" /\ c.chain_path = "ok"

\* No instance yet.
NoInstance ==
  [state |-> "unbuilt", private_key |-> FALSE, cert_chain |-> FALSE,
   secure_health_check |-> FALSE, callout_server |-> FALSE,
   main_port |-> "none", plaintext_port |-> FALSE,
   address |-> None, plaintext_address |-> None, health_check_address |-> None,
   health_check_server |-> FALSE, server_thread_count |-> 0, num_processes |-> 0,
   private_key_from |-> "none", cert_chain_from |-> "none",
   health_check_tls_from |-> "none"]

\* __init__ raised: no instance.
RaisedInstance == [NoInstance EXCEPT !.state = "raised"]

\* add_secure_port / add_insecure_port on a port that is free or in use: bound,
\* not bound (port 0 returned), or RuntimeError.
AddPort(free, c) ==
  IF free THEN "bound" ELSE IF c.bind_raises THEN "raise" ELSE "unbound"

\* CalloutServer.__init__ (the supervising instance): the key material, then the
\* secure health check, which is switched off when its files cannot be loaded.
ConstructCalloutServer(c) ==
  LET key == LoadKey("extproc", c)
      chain == LoadChain("extproc", c)
      secure ==
        /\ c.secure_health_check
        /\ c.key_path # "none" \/ key = "bytes"
        /\ c.chain_path # "none" \/ chain = "bytes"
        /\ c.key_path # "none" /\ c.chain_path # "none"
        /\ load_cert_chain(c)
  IN  IF key = "raise" \/ chain = "raise" THEN RaisedInstance
      ELSE [NoInstance EXCEPT !.state = "built",
                              !.private_key = (key = "bytes"),
                              !.cert_chain = (chain = "bytes"),
                              !.secure_health_check = secure,
                              !.private_key_from = MaterialFrom(c.key_bytes, key),
                              !.cert_chain_from = MaterialFrom(c.chain_bytes, chain),
                              !.health_check_tls_from =
                                 IF secure THEN "file" ELSE "none",
                              !.address = "address",
                              !.plaintext_address =
                                 IF c.disable_plaintext THEN None ELSE "plaintext_address",
                              !.health_check_address =
                                 IF healthCheck THEN "health_check_address" ELSE None,
                              !.server_thread_count = c.server_thread_count,
                              !.num_processes =
                                 IF c.num_processes < 1 THEN 1 ELSE c.num_processes]

\* _GRPCAuthService.__init__: the secure port with the plaintext one beside it,
\* or without key material the plaintext port, or the main address in plaintext.
GRPCAuthService(c, i) ==
  LET secure == i.private_key /\ i.cert_chain
      main == IF secure THEN AddPort(c.secure_free, c)
              ELSE IF c.disable_plaintext THEN AddPort(c.secure_free, c)
              ELSE "unused"
      plain == IF c.disable_plaintext \/ main = "raise" THEN "unused"
               ELSE AddPort(c.plaintext_free, c)
  IN  IF main = "raise" \/ plain = "raise" THEN RaisedInstance
      ELSE [i EXCEPT !.state = "built", !.callout_server = TRUE,
                     !.main_port = IF main # "bound" THEN "none"
                                   ELSE IF secure THEN "secure" ELSE "insecure",
                     !.plaintext_port = (plain = "bound")]

\* _GRPCCalloutService.__init__ of the L4 server: ssl_server_credentials on the
\* key material (a TypeError when it is None), the secure port, then the
\* plaintext port when there is one.
GRPCNetworkService(c, i) ==
  LET main == IF i.private_key /\ i.cert_chain THEN AddPort(c.secure_free, c)
              ELSE "raise"
      plain == IF c.disable_plaintext \/ main = "raise" THEN "unused"
               ELSE AddPort(c.plaintext_free, c)
  IN  IF main = "raise" \/ plain = "raise" THEN RaisedInstance
      ELSE [i EXCEPT !.state = "built", !.callout_server = TRUE,
                     !.main_port = IF main = "bound" THEN "secure" ELSE "none",
                     !.plaintext_port = (plain = "bound")]

\* CalloutServerAuth.__init__ and NetworkCalloutServer.__init__: the key material
\* (CalloutServerAuth drops both when one is missing), the secure health check
\* (an early return without a path, load_cert_chain uncaught), then the servicer.
ConstructPlainServer(k, c) ==
  LET key == LoadKey(k, c)
      chain == LoadChain(k, c)
      dropped == /\ k = "auth"
                 /\ \/ c.chain_path # "none" /\ chain # "bytes"
                    \/ c.key_path # "none" /\ key # "bytes"
      i == [NoInstance EXCEPT !.private_key = (key = "bytes" /\ ~dropped),
                              !.cert_chain = (chain = "bytes" /\ ~dropped),
                              !.secure_health_check = c.secure_health_check,
                              !.private_key_from =
                                 IF dropped THEN "none"
                                 ELSE MaterialFrom(c.key_bytes, key),
                              !.cert_chain_from =
                                 IF dropped THEN "none"
                                 ELSE MaterialFrom(c.chain_bytes, chain),
                              !.health_check_tls_from =
                                 IF /\ c.secure_health_check
                                    /\ c.key_path # "none" /\ c.chain_path # "none"
                                    /\ load_cert_chain(c)
                                   THEN "file" ELSE "none"]
  IN  IF key = "raise" \/ chain = "raise" THEN RaisedInstance
      ELSE IF c.secure_health_check /\ (c.key_path = "none" \/ c.chain_path = "none")
        THEN [i EXCEPT !.state = "partial"]
      ELSE IF c.secure_health_check /\ ~load_cert_chain(c) THEN RaisedInstance
      ELSE IF k = "auth" THEN GRPCAuthService(c, i)
      ELSE GRPCNetworkService(c, i)

\* The instance the constructor of class k leaves behind for the arguments c.
Construct(k, c) ==
  IF k = "extproc" THEN ConstructCalloutServer(c) ELSE ConstructPlainServer(k, c)

\* _GRPCCalloutService.__init__ in a worker of CalloutServer: each port is added
\* inside try/except, and a servicer without any port is kept.
GRPCWorkerService(c, i) ==
  LET main == IF i.private_key /\ i.cert_chain THEN AddPort(c.secure_free, c)
              ELSE "unused"
      plain == IF i.plaintext_address = None THEN "unused"
               ELSE AddPort(c.plaintext_free, c)
  IN  [i EXCEPT !.callout_server = TRUE,
                !.main_port = IF main = "bound" THEN "secure" ELSE "none",
                !.plaintext_port = (plain = "bound")]

\* worker_init_kwargs of _start_servers without the TLS material (a variant, to
\* test the claims against).
WorkerInitKwargsNoTLS(i) ==
  [address |-> i.address, plaintext_address |-> i.plaintext_address,
   disable_plaintext |-> (i.plaintext_address = None),
   cert_chain |-> FALSE, private_key |-> FALSE,
   server_thread_count |-> i.server_thread_count]

\* worker_init_kwargs of _start_servers: what the supervisor i hands to each
\* worker (cert_chain_path and private_key_path are None, and
\* is_worker_processor_instance is True).
WorkerInitKwargs(i) ==
  [address |-> i.address, plaintext_address |-> i.plaintext_address,
   disable_plaintext |-> (i.plaintext_address = None),
   cert_chain |-> i.cert_chain, private_key |-> i.private_key,
   server_thread_count |-> i.server_thread_count]

\* CalloutServer.__init__ in a worker, called with these keyword arguments: the
\* addresses and the key material as given (no path is read), the health-check
\* address at its default, and none of the supervisor's attributes, so no
\* health-check server and no worker processes of its own.
ConstructWorker(kw) ==
  [NoInstance EXCEPT !.state = "built",
                     !.private_key = kw.private_key,
                     !.cert_chain = kw.cert_chain,
                     !.address = kw.address,
                     !.plaintext_address =
                        IF kw.disable_plaintext THEN None ELSE kw.plaintext_address,
                     !.health_check_address = "default_health_check_address",
                     !.server_thread_count = kw.server_thread_count]

\* The arguments with which the lifecycle and the streams are studied.
DefaultConfig ==
  [key_path |-> "ok", chain_path |-> "ok", key_bytes |-> FALSE, chain_bytes |-> FALSE,
   secure_health_check |-> FALSE, disable_plaintext |-> FALSE,
   secure_free |-> TRUE, plaintext_free |-> TRUE, bind_raises |-> TRUE,
   num_processes |-> NumProcesses, server_thread_count |-> 2]

InitBuilt ==
  /\ cfg = DefaultConfig
  /\ inst = Construct(kind, DefaultConfig)
  /\ start = "idle"
  /\ workers = <<>>

InitArguments ==
  /\ cfg \in Configs
  /\ inst = NoInstance
  /\ start = "idle"
  /\ workers = <<>>

\* The program constructs the server.
ConstructServer ==
  /\ inst.state = "unbuilt"
  /\ inst' = Construct(kind, cfg)
  /\ UNCHANGED <<streamVars, lifeVars, toolVars, cfg, start, workers>>

\* CalloutServer.run() up to its serve loop: the workers are spawned, each builds
\* its servicer and starts it, and run() goes on whatever ports they got.
StartWorkers ==
  /\ kind = "extproc"
  /\ inst.state = "built"
  /\ start = "idle"
  /\ workers' = [n \in 1..inst.num_processes |->
                   GRPCWorkerService(cfg, ConstructWorker(WorkerInitKwargs(inst)))]
  /\ inst' = GRPCWorkerService(cfg, inst)
  /\ start' = "serving"
  /\ UNCHANGED <<streamVars, lifeVars, toolVars, cfg>>

\* run() of CalloutServerAuth / NetworkCalloutServer up to its serve loop:
\* _start_servers needs the attributes an early return of __init__ left out.
StartServers ==
  /\ kind # "extproc"
  /\ inst.state \in {"built", "partial"}
  /\ start = "idle"
  /\ start' = IF inst.state = "built" THEN "serving" ELSE "raised"
  /\ UNCHANGED <<streamVars, lifeVars, toolVars, cfg, inst, workers>>

NextConfig ==
  \/ ConstructServer
  \/ StartWorkers
  \/ StartServers

(***************************************************************************)
(* Part 5.  The helpers of callout_tools, as functions of their arguments. *)
(* A str is a sequence of code points, bytes a sequence of numbers below   *)
(* 256, and an optional argument is either None or a value.                *)
(***************************************************************************)

NoneArg == [is_none |-> TRUE, v |-> <<>>]
Some(v) == [is_none |-> FALSE, v |-> v]

\* Python's truth value of an optional str or list: None and the empty one are false.
Truthy(a) == ~a.is_none /\ a.v # <<>>

\* The code points strings are made of: "a", "e" with acute accent, the euro sign.
Chars == {97, 233, 8364}

\* The strings over Chars of at most n code points.
StrsUpTo(n) == UNION {[1..k -> Chars] : k \in 0..n}

Strs == StrsUpTo(MaxStrLen)

\* One code point in Latin-1: a single byte (a variant, to test the claims against).
encode_latin1(c) == <<c % 256>>

\* One code point in UTF-8: one byte below U+0080, two below U+0800, three
\* below U+10000.
encode_utf8(c) ==
  IF c < 128 THEN <<c>>
  ELSE IF c < 2048 THEN <<192 + (c \div 64), 128 + (c % 64)>>
  ELSE <<224 + (c \div 4096), 128 + ((c \div 64) % 64), 128 + (c % 64)>>

\* bytes(v, 'utf-8')
RECURSIVE bytes_utf8(_)
bytes_utf8(str) ==
  IF str = <<>> THEN <<>>
  ELSE encode_utf8(Head(str)) \o bytes_utf8(Tail(str))

\* Header names, and the sequences of at most n elements of a set.
HeaderKeys == {"foo", "bar"}
SeqsUpTo(S, n) == UNION {[1..k -> S] : k \in 0..n}

\* The arguments of add_header_mutation; one call names at most MaxHeaders
\* headers, to add and to remove together.
AddArgs == {NoneArg} \cup {Some(l) : l \in SeqsUpTo(HeaderKeys \X Strs, MaxHeaders)}
RemoveArgs == {NoneArg} \cup {Some(l) : l \in SeqsUpTo(HeaderKeys, MaxHeaders)}
AppendActions == {"None", "OVERWRITE_IF_EXISTS_OR_ADD"}

\* HeaderValueOption(header=HeaderValue(key=k, raw_value=bytes(v, 'utf-8'))),
\* with append_action when one was given.
HeaderValueOption(kv, append_action) ==
  [key |-> kv[1], raw_value |-> bytes_utf8(kv[2]), append_action |-> append_action]

\* callout_tools.add_header_mutation
add_header_mutation(add, remove, clear_route_cache, append_action) ==
  [set_headers |->
     IF Truthy(add)
       THEN [n \in 1..Len(add.v) |-> HeaderValueOption(add.v[n], append_action)]
       ELSE <<>>,
   remove_headers |-> IF ~remove.is_none THEN remove.v ELSE <<>>,
   clear_route_cache |-> clear_route_cache]

\* The arguments of add_body_mutation.
BodyArgs == {NoneArg} \cup {Some(b) : b \in Strs}

\* callout_tools.add_body_mutation: `mutation` is the field of the BodyMutation
\* oneof that was assigned; assigning clear_body sets it even to False.
add_body_mutation(body, clear_body, clear_route_cache) ==
  IF Truthy(body)
    THEN [mutation |-> "body", body |-> bytes_utf8(body.v), clear_body |-> FALSE,
          clear_route_cache |-> clear_route_cache,
          log |-> IF clear_body THEN "body and clear_body are mutually exclusive."
                  ELSE "None"]
    ELSE [mutation |-> "clear_body", body |-> <<>>, clear_body |-> clear_body,
          clear_route_cache |-> clear_route_cache, log |-> "None"]

\* The ext-authz block_ip example.  An entry of x-forwarded-for is text that
\* ipaddress.ip_address parses to an IPv4 address (its four octets) or rejects.
InvalidAddr == [valid |-> FALSE, octets |-> <<>>]
Addrs ==
  {InvalidAddr} \cup
  {[valid |-> TRUE, octets |-> o] :
     o \in {<<10, 0, 0, 1>>, <<10, 0, 1, 1>>, <<192, 168, 1, 1>>}}

\* The x-forwarded-for header of a CheckRequest: absent, or its comma-separated
\* entries (none for an empty value).
XffArgs == {NoneArg} \cup {Some(l) : l \in SeqsUpTo(Addrs, MaxHeaders)}

\* BLOCKED_IP_RANGE = ip_network('10.0.0.0/24'): the first three octets.
BLOCKED_IP_RANGE == <<10, 0, 0>>

\* extract_client_ip: the first entry of the header, None without one.
extract_client_ip(xff) == IF Truthy(xff) THEN Some(xff.v[1]) ELSE NoneArg

is_valid_ip(ip) == ip.valid

is_ip_blocked(ip) ==
  IF ~ip.valid THEN TRUE ELSE SubSeq(ip.octets, 1, 3) = BLOCKED_IP_RANGE

\* deny_request(status_code=Forbidden, headers=[('x-client-ip-allowed', 'false')])
BlockIpDenied ==
  Some([response |-> deny_request(403),
        headers |-> <<<<"x-client-ip-allowed", "false">>>>])

\* CalloutServerExample.on_check of block_ip: three tests that deny, and after
\* them the function ends without a return statement: the result is None.
block_ip_on_check(xff) ==
  LET client_ip == extract_client_ip(xff)
  IN  IF client_ip.is_none THEN BlockIpDenied
      ELSE IF ~is_valid_ip(client_ip.v) THEN BlockIpDenied
      ELSE IF is_ip_blocked(client_ip.v) THEN BlockIpDenied
      ELSE NoneArg

\* The command-line value of an address option: text over a letter, the
\* separator and a digit.
AddrValues == UNION {[1..k -> {"h", ":", "8"}] : k \in 0..MaxAddrLen}

\* value.split(':')
RECURSIVE split(_)
split(value) ==
  IF \A n \in 1..Len(value) : value[n] # ":" THEN <<value>>
  ELSE LET i == CHOOSE n \in 1..Len(value) :
                  value[n] = ":" /\ \A m \in 1..(n - 1) : value[m] # ":"
       IN  <<SubSeq(value, 1, i - 1)>> \o split(SubSeq(value, i + 1, Len(value)))

\* int(text): the number written in decimal digits, or ValueError for the
\* empty text and for text with another character.
RECURSIVE int(_)
int(text) ==
  IF text = <<>> \/ \E n \in 1..Len(text) : text[n] # "8"
    THEN [raised |-> TRUE, v |-> 0]
  ELSE IF Len(text) = 1 THEN [raised |-> FALSE, v |-> 8]
  ELSE [raised |-> FALSE, v |-> 10 * int(SubSeq(text, 1, Len(text) - 1)).v + 8]

\* _addr(value) of callout_tools and command_line_tools: None, the tuple
\* (host, port), or ValueError.
_addr(value) ==
  IF value = <<>> THEN [kind |-> "None", host |-> <<>>, port |-> 0]
  ELSE IF \A n \in 1..Len(value) : value[n] # ":"
    THEN [kind |-> "None", host |-> <<>>, port |-> 0]
  ELSE LET address_values == split(value)
           port == int(address_values[2])
       IN  IF port.raised THEN [kind |-> "raise", host |-> <<>>, port |-> 0]
           ELSE [kind |-> "address", host |-> address_values[1], port |-> port.v]

(***************************************************************************)
(* Part 6.  The observability example servers: hooks that count callouts   *)
(* in a module-level dict, under a lock.                                   *)
(***************************************************************************)

\* AsyncServerExample (example/observability_server) and
\* ObservabilityServerExample (example/e2e_tests).
ObsServers == {"observability_server", "e2e_tests"}

\* The counter that counts the callouts of a kind.
CounterOf ==
  [request_headers |-> "request_header_count", request_body |-> "request_body_count",
   response_headers |-> "response_header_count",
   response_body |-> "response_body_count"]

\* `counters` at import, and no callout handled.
NewObs(server) ==
  [server |-> server,
   counters |-> [c \in {CounterOf[k] : k \in HookVariants} |-> 0],
   handled |-> [s \in StreamIds |-> [k \in HookVariants |-> 0]]]

\* The counters the hook of a server increments for a message of this kind (a
\* body message has end_of_stream and may carry bytes).
hook_counts(server, k, end_of_stream, has_body) ==
  IF server = "observability_server"
    THEN IF k = "request_headers" THEN {"request_header_count"}
         ELSE IF k = "request_body" THEN {"request_header_count"}
         ELSE IF k = "response_headers" THEN {"response_header_count"}
         ELSE {"response_body_count"}
  ELSE IF k = "request_headers" THEN {"request_header_count"}
  ELSE IF k = "response_headers" THEN {"response_header_count"}
  ELSE IF ~end_of_stream \/ has_body
    THEN {CounterOf[k]}
  ELSE {}

\* process hands a callout of stream s to its hook, which takes the lock,
\* increments and returns an empty mutation.
ObsCallout(s, k, end_of_stream, has_body) ==
  /\ obs.handled[1]["request_headers"] + obs.handled[1]["request_body"]
       + obs.handled[1]["response_headers"] + obs.handled[1]["response_body"]
       + obs.handled[2]["request_headers"] + obs.handled[2]["request_body"]
       + obs.handled[2]["response_headers"] + obs.handled[2]["response_body"]
       < MaxCallouts
  /\ obs' = [obs EXCEPT
              !.handled[s][k] = @ + 1,
              !.counters = [c \in DOMAIN @ |->
                              IF c \in hook_counts(obs.server, k, end_of_stream, has_body)
                                THEN @[c] + 1 ELSE @[c]]]
  /\ UNCHANGED <<streamVars, lifeVars, cfgVars, tool>>

NextObs ==
  \E s \in StreamIds, k \in HookVariants, end_of_stream \in BOOLEAN, has_body \in BOOLEAN :
    ObsCallout(s, k, end_of_stream, has_body)

\* No helper has been called.
NoCall == [fn |-> "none"]

InitTools == tool = NoCall /\ obs = NewObs("observability_server")

\* A hook calls add_header_mutation, with any arguments.
CallAddHeaderMutation ==
  /\ tool = NoCall
  /\ \E add \in AddArgs, clear_route_cache \in BOOLEAN, append_action \in AppendActions :
       \E remove \in {r \in RemoveArgs : Len(add.v) + Len(r.v) <= MaxHeaders} :
         tool' = [fn |-> "add_header_mutation", add |-> add, remove |-> remove,
                  clear_route_cache |-> clear_route_cache,
                  append_action |-> append_action,
                  result |-> add_header_mutation(add, remove, clear_route_cache,
                                                 append_action)]
  /\ UNCHANGED <<streamVars, lifeVars, cfgVars, obs>>

\* A hook calls add_body_mutation, with any arguments.
CallAddBodyMutation ==
  /\ tool = NoCall
  /\ \E body \in BodyArgs, clear_body \in BOOLEAN, clear_route_cache \in BOOLEAN :
       tool' = [fn |-> "add_body_mutation", body |-> body, clear_body |-> clear_body,
                clear_route_cache |-> clear_route_cache,
                result |-> add_body_mutation(body, clear_body, clear_route_cache)]
  /\ UNCHANGED <<streamVars, lifeVars, cfgVars, obs>>

\* A Check RPC reaches on_check of the block_ip example.
CallBlockIpOnCheck ==
  /\ tool = NoCall
  /\ \E xff \in XffArgs :
       tool' = [fn |-> "block_ip.on_check", xff |-> xff,
                result |-> block_ip_on_check(xff)]
  /\ UNCHANGED <<streamVars, lifeVars, cfgVars, obs>>

\* argparse converts an address option with _addr.
CallAddr ==
  /\ tool = NoCall
  /\ \E value \in AddrValues :
       tool' = [fn |-> "_addr", value |-> value, result |-> _addr(value)]
  /\ UNCHANGED <<streamVars, lifeVars, cfgVars, obs>>

NextTools ==
  \/ CallAddHeaderMutation
  \/ CallAddBodyMutation
  \/ CallBlockIpOnCheck
  \/ CallAddr

vars == <<streamVars, lifeVars, cfgVars, toolVars>>

\* A stream is served by a server whose lifecycle is left aside.
InitStreamOnly == InitStream /\ InitLife /\ InitBuilt /\ healthCheck /\ kind = "extproc" /\ InitTools

\* The dispatchers on one stream.
SpecStream == InitStreamOnly /\ [][NextStream]_vars

\* The ext-proc dispatcher on several streams at once.
InitConcurrent == InitStreams /\ InitLife /\ InitBuilt /\ healthCheck /\ kind = "extproc" /\ InitTools
SpecStreams == InitConcurrent /\ [][NextStreams]_vars

\* One server instance of any of the three classes, its streams left aside.
Init == InitLife /\ InitBuilt /\ InitStream /\ svc = "extproc" /\ InitTools

Next == NextLife \/ NextAuth

\* The lifecycle of one server instance.
Spec == Init /\ [][Next]_vars

\* Construction and startup of one server instance, for every combination of
\* TLS arguments.
InitConfig == InitLife /\ InitArguments /\ InitStream /\ svc = "extproc" /\ InitTools
SpecConfig == InitConfig /\ [][NextConfig]_vars

\* The helpers of callout_tools on every combination of arguments.
InitHelpers == InitStreamOnly /\ svc = "extproc"
SpecTools == InitHelpers /\ [][NextTools]_vars

\* An observability example server handling callouts of two streams.
InitObs ==
  /\ InitStream /\ svc = "extproc"
  /\ InitLife /\ InitBuilt /\ healthCheck /\ kind = "extproc"
  /\ tool = NoCall
  /\ obs \in {NewObs(server) : server \in ObsServers}
SpecObs == InitObs /\ [][NextObs]_vars

\* The lifecycle under the scheduling the runtime gives: every thread that can
\* take a step of run() or shutdown() eventually does, and so does every worker.
FairSpec ==
  /\ Spec
  /\ WF_vars(RunStep)
  /\ WF_vars(AuthRunStep)
  /\ \A t \in Threads : WF_vars(ShutdownStep(t)) /\ WF_vars(AuthStopStep(t))
  /\ \A t \in Callers : WF_vars(ShutdownReturn(t)) /\ WF_vars(AuthShutdownReturn(t))
  /\ \A p \in Procs : WF_vars(WorkerExit(p))

(***************************************************************************)
(* Claims about the streaming dispatchers (checked under SpecStream).      *)
(***************************************************************************)
\* process produced a response for the k-th handled message: its hook returned
\* (or none was due) and building the response did not raise.
Answered(k) ==
  /\ handled[k].ret.kind \in {"return", "nohook"}
  /\ ~Processed(handled[k].callout, handled[k].ret).raised

\* C1: on an ext-proc stream the messages are handled in arrival order, and for
\* every prefix of messages that process answered exactly one response per
\* message has been emitted, the k-th being process's result on the k-th
\* message: nothing is reordered, skipped, duplicated or coalesced.
C1_OneResponsePerMessageInOrder ==
  svc = "extproc" =>
    /\ Len(handled) <= Len(received)
    /\ \A k \in 1..Len(handled) : handled[k].callout = received[k]
    /\ Len(outbound) = Cardinality({k \in 1..Len(handled) : Answered(k)})
    /\ \A j \in 1..Len(handled) :
         (\A k \in 1..j : Answered(k)) =>
           /\ Len(outbound) >= j
           /\ \A k \in 1..j : outbound[k] = process(received[k], handled[k].ret).resp

\* C1 witness: three different messages were answered, in order.
C1_Witness ==
  /\ svc = "extproc"
  /\ Len(outbound) = 3
  /\ received[1].variant = "response_body"
  /\ received[2].variant = "request_headers"
  /\ received[3].variant = "request_body"
  /\ outbound[1].variant = "response_body"
  /\ outbound[2].variant = "request_headers"
  /\ outbound[3].variant = "immediate_response"

\* C2: once a hook has called deny_callout(context, msg) the RPC has ended with
\* PERMISSION_DENIED and details msg ('Callout DENIED.' when no non-empty msg
\* was given), and no response exists for that message or any later one.
C2_DenyEndsStream ==
  \A k \in 1..Len(handled) :
    handled[k].ret.kind = "deny" =>
      /\ k = Len(handled)
      /\ Len(outbound) = k - 1
      /\ rpcStatus = "PERMISSION_DENIED"
      /\ rpcDetails = IF handled[k].ret.msg \in {None, ""}
                        THEN "Callout DENIED." ELSE handled[k].ret.msg

\* C2 witness: a deny without a message after one answered message, with a
\* further message of the stream left unanswered.
C2_Witness ==
  /\ svc = "extproc"
  /\ Len(received) = 3
  /\ Len(handled) = 2
  /\ handled[2].ret.kind = "deny"
  /\ handled[2].ret.msg = None
  /\ rpcDetails = "Callout DENIED."
  /\ Len(outbound) = 1

\* C7 (as claimed): a hook of one of the four variants that returns nothing is
\* answered by a ProcessingResponse whose set variant is that of the message,
\* holding the empty HeadersResponse or BodyResponse.
C7_DefaultResponseKeepsVariant ==
  svc = "extproc" =>
    \A k \in 1..Len(handled) :
      (handled[k].callout.variant \in HookVariants /\ handled[k].ret = ReturnNone) =>
        /\ Len(outbound) >= k
        /\ outbound[k] = Response(handled[k].callout.variant, "empty", None)

\* C8 (as claimed): a full ProcessingResponse returned by any of the four hooks
\* is emitted unchanged as the response to the message.
C8_FullResponseForwardedAnyHook ==
  svc = "extproc" =>
    \A k \in 1..Len(handled) :
      (handled[k].callout.variant \in HookVariants
         /\ handled[k].ret.type = "ProcessingResponse") =>
        /\ Len(outbound) >= k
        /\ outbound[k] = handled[k].ret.full

\* C8 (amended): a full ProcessingResponse returned by on_request_headers is
\* emitted unchanged, dynamic_metadata included, as the response to the message.
C8_FullResponseForwardedRequestHeaders ==
  svc = "extproc" =>
    \A k \in 1..Len(handled) :
      (handled[k].callout.variant = "request_headers"
         /\ handled[k].ret.type = "ProcessingResponse") =>
        /\ Len(outbound) >= k
        /\ outbound[k] = handled[k].ret.full

\* C8 witness: on_request_headers returned a response with dynamic metadata.
C8_Witness ==
  /\ svc = "extproc"
  /\ Len(outbound) >= 1
  /\ handled[1].callout.variant = "request_headers"
  /\ handled[1].ret.type = "ProcessingResponse"
  /\ outbound[1].dynamic_metadata = "dynamic_forwarding"

\* C9: an ImmediateResponse returned by on_request_headers or on_request_body is
\* emitted as the immediate_response of the ProcessingResponse, whose oneof
\* therefore holds no request_headers / request_body.
C9_ImmediateResponseWrapped ==
  svc = "extproc" =>
    \A k \in 1..Len(handled) :
      (handled[k].callout.variant \in {"request_headers", "request_body"}
         /\ handled[k].ret.type = "ImmediateResponse") =>
        /\ Len(outbound) >= k
        /\ outbound[k].variant = "immediate_response"
        /\ outbound[k].value = handled[k].ret.tag
        /\ outbound[k].variant \notin {"request_headers", "request_body"}

\* C9 witness: both request hooks answered with an immediate response.
C9_Witness ==
  /\ svc = "extproc"
  /\ Len(outbound) >= 2
  /\ handled[1].callout.variant = "request_headers"
  /\ handled[2].callout.variant = "request_body"
  /\ handled[1].ret.type = "ImmediateResponse"
  /\ handled[2].ret.type = "ImmediateResponse"
  /\ outbound[2].variant = "immediate_response"

\* The k-th handled message made an exception other than deny_callout's leave
\* the hook or process.
HookRaised(k) == handled[k].ret.kind = "raise"

C11_CheckExceptionIsDenied500 ==
  svc = "authz" =>
    \A k \in 1..Len(handled) :
      HookRaised(k) =>
        /\ rpcStatus \in {"OPEN", "OK"}
        /\ Len(outbound) >= k
        /\ outbound[k].variant = "denied_response"
        /\ outbound[k].http_status = 500

\* C12: with the hooks of the NetworkCalloutServer base class, every read_data
\* or write_data frame is answered by a frame of the same direction carrying
\* the inbound bytes, with status UNMODIFIED and connection status CONTINUE.
C12_DefaultL4HooksPassThrough ==
  svc = "l4" =>
    \A k \in 1..Len(handled) :
      (handled[k].callout.variant \in {"read_data", "write_data"}
         /\ handled[k].ret = DefaultL4Hooks(handled[k].callout)) =>
        /\ Len(outbound) >= k
        /\ outbound[k] = L4Response(handled[k].callout.variant,
                                    handled[k].callout.data,
                                    handled[k].callout.end_of_stream,
                                    "UNMODIFIED", "CONTINUE")

progVars ==
  <<setup, shutdownInitiated, closed, hcServer, hc, event, grpc, lists, workerList, proc>>

\* C3: whenever CalloutServer.run() is blocked in its serve loop and another
\* thread has called shutdown(), run() eventually returns with the instance
\* closed, whatever run()/shutdown() calls came before.
C3_ShutdownEndsRun ==
  \A t \in Callers :
    (kind = "extproc" /\ RunBlocked /\ pc[t] = "s_guard")
      ~> (pc[RunThread] = "returned" /\ closed)

\* C4: when every shutdown() call on a CalloutServer was made while run() was
\* serving, each shutdown step has been performed at most once, no call has
\* raised, and once run() has returned the instance is closed.
C4_ConcurrentShutdownOnce ==
  (kind = "extproc" /\ ~stray) =>
    /\ \A n \in StepNames : steps[n] <= 1
    /\ raised = {}
    /\ \A t \in Threads : pc[t] # "s_raised"
    /\ pc[RunThread] = "returned" => closed

\* Thread t takes a step of a shutdown() call that began after an earlier call
\* had returned.
LateCallStep(t) ==
  /\ late[t]
  /\ pc[t] # "idle"
  /\ pc'[t] # pc[t] \/ iter'[t] # iter[t]

\* C5: on all three server classes, a shutdown() call made after an earlier
\* call has returned performs no shutdown step and changes no state of the
\* instance.
C5_SecondShutdownIsNoOp ==
  [][\A t \in Callers : LateCallStep(t) => UNCHANGED <<progVars, steps>>]_vars

\* C5 (amended): on CalloutServer a shutdown() call made after an earlier call
\* has returned performs no shutdown step and changes no state; on
\* CalloutServerAuth and NetworkCalloutServer such a call, made when run() is not
\* in progress, leaves the state of the instance as it was.
C5_SecondShutdownKeepsTerminalState ==
  [][\A t \in Callers :
       LateCallStep(t) =>
         IF kind = "extproc"
           THEN UNCHANGED <<progVars, steps>>
           ELSE pc[RunThread] \in {"idle", "returned"} => UNCHANGED progVars]_vars

\* A second shutdown() call has run to its end on a CalloutServerAuth or
\* NetworkCalloutServer whose run() has returned and stopped the servers.
C5_Witness ==
  /\ kind # "extproc"
  /\ pc[RunThread] = "returned"
  /\ \E t \in Callers : late[t] /\ pc[t] = "a_done"
  /\ steps["grpc_stop"] >= 3

\* C6: whenever a shutdown() call on a CalloutServer is about to return (all
\* calls having been made while run() was serving), the shared shutdown event is
\* set, no worker process is alive, and the worker list of the instance is empty.
C6_ShutdownLeavesNoWorker ==
  \A t \in Threads :
    (kind = "extproc" /\ ~stray /\ pc[t] = "s_done") =>
      /\ event
      /\ \A p \in Procs : proc[p] # "alive"
      /\ lists[workerList] = <<>>

\* C17: when a step of CalloutServer.shutdown() has raised (all calls having
\* been made while run() was serving) and run() has returned, the remaining
\* steps were still carried out (the workers joined) and the instance is closed.
C17_ShutdownErrorDoesNotBlock ==
  (kind = "extproc" /\ ~stray /\ raised # {} /\ pc[RunThread] = "returned"
     /\ \A t \in Callers : pc[t] = "idle")
    => (closed /\ steps["workers_joined"] >= 1 /\ steps["hc_close"] >= 1)

\* C18: in a shutdown (every shutdown() call having been made while run() was
\* serving), once the socket of the health-check server is closed no gRPC
\* listener accepts streams any more: no worker process of a CalloutServer is
\* alive, and the gRPC server of the other two classes is not started.
C18_GrpcStopsBeforeHealthCheckCloses ==
  (~stray /\ hc.socketClosed) =>
    IF kind = "extproc" THEN \A p \in Procs : proc[p] # "alive"
    ELSE grpc # "STARTED"

C20_HealthGetIffEnabled ==
  /\ ~healthCheck => hcServer = None
  /\ Serving =>
       (healthCheck <=> HealthGet = {[answered |-> TRUE, status |-> 200, body |-> <<>>]})

\* A server whose health listener is enabled is serving and answers a GET.
C20_Witness ==
  /\ healthCheck
  /\ Serving
  /\ \E r \in HealthGet : r.answered


(***************************************************************************)
(* Claims about construction and startup (SpecConfig).                     *)
(***************************************************************************)

\* No key material was given at all: no path and no bytes.
TLSAbsent ==
  /\ cfg.key_path = "none" /\ cfg.chain_path = "none"
  /\ ~cfg.key_bytes /\ ~cfg.chain_bytes

\* A path was given whose file cannot be read.
UnreadablePath ==
  \/ ~cfg.key_bytes /\ cfg.key_path \in {"missing", "denied"}
  \/ ~cfg.chain_bytes /\ cfg.chain_path \in {"missing", "denied"}

\* C14: startup fails if and only if no listener can be bound.  A server that
\* reached its serve loop has a gRPC port bound, and a server without any TLS
\* material whose plaintext port is configured and free is constructed and
\* serves on that port.
C14_StartupFailsIffNoListener ==
  /\ start = "serving" => (inst.main_port # "none" \/ inst.plaintext_port)
  /\ (TLSAbsent /\ ~cfg.secure_health_check /\ ~cfg.disable_plaintext
        /\ cfg.plaintext_free)
       => /\ inst.state \in {"unbuilt", "built"}
          /\ start # "raised"
          /\ start = "serving" => inst.plaintext_port

\* C15: a certificate or key path whose file cannot be read never makes the
\* construction fail: once the constructor has run there is a complete instance.
C15_UnreadablePathStillConstructs ==
  (UnreadablePath /\ inst.state # "unbuilt") => inst.state = "built"

\* C16: no instance exists that was requested with secure_health_check and has
\* no TLS material loaded.
C16_SecureHealthCheckNeedsTLS ==
  (cfg.secure_health_check /\ inst.state \in {"built", "partial"})
    => (inst.private_key /\ inst.cert_chain)


\* C21: once run() of a CalloutServer has spawned its workers there are exactly
\* num_processes of them; each was constructed with the supervisor's secure
\* address, plaintext address, key material and thread count, each has bound the
\* configured ports (when they are free), and none has a health-check server.
C21_WorkersMirrorSupervisor ==
  (kind = "extproc" /\ start = "serving") =>
    /\ Len(workers) = inst.num_processes
    /\ cfg.num_processes >= 1 => Len(workers) = cfg.num_processes
    /\ \A n \in 1..Len(workers) :
         /\ workers[n].address = inst.address
         /\ workers[n].plaintext_address = inst.plaintext_address
         /\ workers[n].private_key = inst.private_key
         /\ workers[n].cert_chain = inst.cert_chain
         /\ workers[n].server_thread_count = cfg.server_thread_count
         /\ ~workers[n].health_check_server
         /\ cfg.secure_free =>
              (workers[n].main_port = "secure" <=> (inst.private_key /\ inst.cert_chain))
         /\ cfg.plaintext_free =>
              (workers[n].plaintext_port <=> ~cfg.disable_plaintext)

\* run() has spawned several workers that serve TLS and plaintext.
C21_Witness ==
  /\ kind = "extproc"
  /\ start = "serving"
  /\ Len(workers) >= 2
  /\ \A n \in 1..Len(workers) :
       workers[n].main_port = "secure" /\ workers[n].plaintext_port

(***************************************************************************)
(* Further claims about the dispatchers on one stream (SpecStream).        *)
(***************************************************************************)

\* C22: on one stream the hooks never overlap and run in arrival order: the hook
\* for a message is invoked only when every earlier message has been handled and
\* its response emitted, one message at a time, and it is the next message in
\* the order of arrival.
C22_HooksSequentialInOrder ==
  [][Len(handled') > Len(handled) =>
       /\ Len(handled') = Len(handled) + 1
       /\ rpcStatus = "OPEN"
       /\ Len(outbound) = Len(handled)
       /\ handled'[Len(handled')].callout = received[Len(handled) + 1]]_vars

\* Two messages were answered one after the other while a third, different one,
\* was already waiting.
C22_Witness ==
  /\ svc = "extproc"
  /\ Len(received) = 3
  /\ Len(handled) = 2
  /\ Len(outbound) = 2
  /\ received[1].variant # received[2].variant
  /\ received[2].variant # received[3].variant

C24_ImmediateOnlyForRequestHooks ==
  svc = "extproc" =>
    \A k \in 1..Len(outbound) :
      outbound[k].variant = "immediate_response"
        => received[k].variant \in {"request_headers", "request_body"}

\* A response hook returned an ImmediateResponse and no response was emitted for
\* it, after a request hook's ImmediateResponse had been emitted.
C24_Witness ==
  /\ svc = "extproc"
  /\ Len(handled) = 2
  /\ Len(outbound) = 1
  /\ outbound[1].variant = "immediate_response"
  /\ received[1].variant = "request_body"
  /\ received[2].variant = "response_headers"
  /\ handled[2].ret.type = "ImmediateResponse"

\* C25: on an ext-proc stream a message with no variant set makes the dispatcher
\* log a warning and emit exactly one empty ProcessingResponse, and the stream
\* stays open for the next message.
C25_UnsetVariantWarnsAndAnswersEmpty ==
  svc = "extproc" =>
    \A k \in 1..Len(handled) :
      received[k].variant = "none" =>
        /\ handled[k].log # None
        /\ Len(outbound) >= k
        /\ outbound[k] = EmptyResponse
        /\ k = Len(handled) => rpcStatus \in {"OPEN", "OK", "CANCELLED"}

(***************************************************************************)
(* Claims about the helpers of callout_tools (SpecTools).                  *)
(***************************************************************************)

\* C26: whenever add_body_mutation is given a body (any str) together with
\* clear_body=True, the result carries the UTF-8 bytes of the body and does not
\* set clear_body; and no result has both body and clear_body set.
C26_BodyWinsOverClearBody ==
  tool.fn = "add_body_mutation" =>
    /\ (~tool.body.is_none /\ tool.clear_body) =>
         /\ tool.result.mutation = "body"
         /\ tool.result.body = bytes_utf8(tool.body.v)
         /\ ~tool.result.clear_body
    /\ ~(tool.result.mutation = "body" /\ tool.result.clear_body)

\* The UTF-8 encoding of the code points used as header values, written out
\* byte by byte.
C27_Utf8Table ==
  (97 :> <<97>>) @@ (233 :> <<195, 169>>) @@ (8364 :> <<226, 130, 172>>)

RECURSIVE C27_Utf8Bytes(_)
C27_Utf8Bytes(str) ==
  IF str = <<>> THEN <<>>
  ELSE C27_Utf8Table[Head(str)] \o C27_Utf8Bytes(Tail(str))

\* C27: add_header_mutation(add, ...) returns a HeadersResponse whose
\* set_headers has exactly one entry per element of add, in the same order,
\* each with key k and raw_value the UTF-8 bytes of v; clear_route_cache is set
\* iff the argument is true.
C27_SetHeadersMirrorAdd ==
  tool.fn = "add_header_mutation" =>
    LET added == IF tool.add.is_none THEN <<>> ELSE tool.add.v
        r == tool.result
    IN  /\ Len(r.set_headers) = Len(added)
        /\ \A n \in 1..Len(added) :
             /\ r.set_headers[n].key = added[n][1]
             /\ r.set_headers[n].raw_value = C27_Utf8Bytes(added[n][2])
        /\ r.clear_route_cache = tool.clear_route_cache

\* add_header_mutation was called with two headers, the second one with a
\* value outside ASCII, and with clear_route_cache.
C27_Witness ==
  /\ tool.fn = "add_header_mutation"
  /\ ~tool.add.is_none
  /\ Len(tool.add.v) = 2
  /\ tool.add.v[1][1] = "foo"
  /\ tool.add.v[2] = <<"bar", <<8364>>>>
  /\ tool.clear_route_cache
  /\ Len(tool.result.set_headers) = 2

\* C28: the remove_headers list of add_header_mutation's result is the
\* de-duplicated set of the keys in remove: each key appears exactly once even
\* when remove contains it several times.
C28_RemoveHeadersDeduplicated ==
  tool.fn = "add_header_mutation" =>
    LET removed == IF tool.remove.is_none THEN <<>> ELSE tool.remove.v
        r == tool.result.remove_headers
    IN  /\ {r[n] : n \in 1..Len(r)} = {removed[n] : n \in 1..Len(removed)}
        /\ \A m, n \in 1..Len(r) : r[m] = r[n] => m = n

\* C29: when both in-memory TLS bytes and a file path are provided for the
\* certificate chain or private key, the in-memory bytes are the TLS material
\* used by every TLS listener of the server (secure gRPC and secure health
\* check), and the file at the path is not used.
C29_InMemoryMaterialWins ==
  inst.state \in {"built", "partial"} =>
    /\ (cfg.key_bytes /\ cfg.key_path # "none") =>
         /\ inst.private_key_from \in {"none", "argument"}
         /\ healthCheck => inst.health_check_tls_from \in {"none", "argument"}
    /\ (cfg.chain_bytes /\ cfg.chain_path # "none") =>
         /\ inst.cert_chain_from \in {"none", "argument"}
         /\ healthCheck => inst.health_check_tls_from \in {"none", "argument"}

\* C30: every CheckResponse returned by the ext-authz dispatcher (from the
\* default on_check, allow_request or deny_request) has exactly one of
\* ok_response and denied_response set.
C30_CheckResponseHasOneHttpResponse ==
  svc = "authz" =>
    \A n \in 1..Len(outbound) :
      outbound[n].variant \in {"ok_response", "denied_response"}

(***************************************************************************)
(* Claims about the example servers.                                       *)
(***************************************************************************)

\* C31: on_check of the block_ip example answers with denied_response (status
\* 403, header x-client-ip-allowed=false) when the first x-forwarded-for address
\* is missing, invalid or inside 10.0.0.0/24, and with ok_response carrying
\* header x-client-ip-allowed=true for every other request.
C31_BlockIpDecision ==
  tool.fn = "block_ip.on_check" =>
    LET first == IF Truthy(tool.xff) THEN tool.xff.v[1] ELSE InvalidAddr
        denied == \/ ~Truthy(tool.xff)
                  \/ ~first.valid
                  \/ (first.octets[1] = 10 /\ first.octets[2] = 0 /\ first.octets[3] = 0)
        r == tool.result
    IN  /\ ~r.is_none
        /\ denied =>
             /\ r.v.response.variant = "denied_response"
             /\ r.v.response.http_status = 403
             /\ r.v.headers = <<<<"x-client-ip-allowed", "false">>>>
        /\ ~denied =>
             /\ r.v.response.variant = "ok_response"
             /\ r.v.headers = <<<<"x-client-ip-allowed", "true">>>>

(***************************************************************************)
(* Further claims about the dispatchers, the listeners and the lifecycle.  *)
(***************************************************************************)

C33_OtherMethodsNotAllowed ==
  \A method \in Methods \ {"GET"} :
    \A r \in HealthRequest(method) : r.answered => r.status = 405

\* C34: _addr accepts exactly the well-formed host:port strings (one ':'
\* separator, a port of decimal digits) and rejects every malformed input
\* (no ':' separator, non-numeric port, extra ':'-separated segments) instead
\* of returning an absent or partial address.
C34_AddrRejectsMalformed ==
  tool.fn = "_addr" =>
    LET value == tool.value
        colons == {n \in 1..Len(value) : value[n] = ":"}
        wellFormed ==
          /\ Cardinality(colons) = 1
          /\ \E c \in colons :
               /\ c < Len(value)
               /\ \A n \in (c + 1)..Len(value) : value[n] = "8"
    IN  /\ wellFormed <=> tool.result.kind = "address"
        /\ ~wellFormed => tool.result.kind = "raise"

\* C35: when CalloutServer.run() has returned on the supervising instance with
\* its _closed flag set, every worker process it spawned has exited and the
\* health-check listener is closed, also when the shutdown was initiated by
\* shutdown() on another thread.
C35_ClosedMeansAllStopped ==
  (kind = "extproc" /\ closed) =>
    /\ \A p \in Procs : proc[p] \notin {"created", "alive"}
    /\ hcServer = None \/ hc.socketClosed

\* C36: no cleartext gRPC listener is ever bound on the configured secure
\* address: a listener on the secure address uses TLS, and when TLS material is
\* absent nothing listens on the secure address.
C36_SecureAddressNeverCleartext ==
  /\ inst.main_port \in {"none", "secure"}
  /\ ~(inst.private_key /\ inst.cert_chain) => inst.main_port = "none"
  /\ \A n \in 1..Len(workers) :
       /\ workers[n].main_port \in {"none", "secure"}
       /\ ~(workers[n].private_key /\ workers[n].cert_chain) =>
            workers[n].main_port = "none"

\* C37: for each inbound ProcessingRequest exactly one user hook is invoked,
\* the one matching the set variant among request_headers, response_headers,
\* request_body and response_body, and no hook is invoked when none of these
\* variants is set (including trailers messages).
C37_OneMatchingHook ==
  svc = "extproc" =>
    \A n \in 1..Len(handled) :
      LET h == handled[n]
          v == h.callout.variant
      IN  /\ v = "request_headers" => h.hook = "on_request_headers"
          /\ v = "response_headers" => h.hook = "on_response_headers"
          /\ v = "request_body" => h.hook = "on_request_body"
          /\ v = "response_body" => h.hook = "on_response_body"
          /\ v \in {"request_trailers", "response_trailers", "none"} =>
               /\ h.hook = None
               /\ h.ret.kind = "nohook"
          /\ h.hook # None => h.ret.kind # "nohook"

\* A stream on which a body message went to its hook and a trailers message to
\* none.
C37_Witness ==
  /\ svc = "extproc"
  /\ \E m, n \in 1..Len(handled) :
       /\ handled[m].callout.variant = "request_body"
       /\ handled[m].hook = "on_request_body"
       /\ handled[n].callout.variant = "request_trailers"
       /\ handled[n].hook = None

\* C38: every CheckResponse built by deny_request carries a non-OK top-level
\* status, so that it can never be read as an allow decision; every
\* CheckResponse built by allow_request carries top-level status OK.
C38_DenyStatusNotOK ==
  svc = "authz" =>
    \A n \in 1..Len(outbound) :
      /\ outbound[n].variant = "denied_response" => outbound[n].status_code # 0
      /\ outbound[n].variant = "ok_response" => outbound[n].status_code = 0

\* C39: if a hook returns a value that is not one of its supported result
\* types, the dispatcher logs a warning, emits an empty ProcessingResponse for
\* that message and the stream continues; this holds for all four hooks.
C39_UnsupportedResultAnsweredEmpty ==
  svc = "extproc" =>
    \A n \in 1..Len(handled) :
      LET h == handled[n]
          supported ==
            IF h.hook = "on_request_headers"
              THEN {"NoneType", "HeadersResponse", "ImmediateResponse",
                    "ProcessingResponse"}
            ELSE IF h.hook = "on_response_headers" THEN {"NoneType", "HeadersResponse"}
            ELSE IF h.hook = "on_request_body"
              THEN {"NoneType", "BodyResponse", "ImmediateResponse"}
            ELSE {"NoneType", "BodyResponse"}
      IN  (h.hook # None /\ h.ret.kind = "return" /\ h.ret.type \notin supported) =>
            /\ h.log = "MALFORMED CALLOUT"
            /\ Len(outbound) >= n
            /\ outbound[n] = EmptyResponse

\* C40: in the observability example server, after any sequence and any
\* cross-stream interleaving of handled callouts, each of the four counters
\* equals the number of callouts of the corresponding kind that were handled.
C40_CountersMatchHandled ==
  \A k \in HookVariants :
    obs.counters[CounterOf[k]] = obs.handled[1][k] + obs.handled[2][k]

=============================================================================
